---------------------------- MODULE Spec2Model ----------------------------
(***************************************************************************)
(* EV charging station directory: the client-side data pipeline            *)
(*   fetch-with-fallback -> normalize -> cache -> filter -> sort -> page.  *)
(*                                                                         *)
(* Conventions of the model                                                *)
(*  - A JavaScript string is a sequence of one-character strings, so that  *)
(*    toLowerCase, includes, trim and the regular expressions of the       *)
(*    normalizer are computed and not assumed.                             *)
(*  - A JavaScript object is a function whose DOMAIN is the set of keys    *)
(*    it has: a missing (undefined / null) field is a key not in DOMAIN.   *)
(*  - Coordinates are fixed-point numbers in tenths of a degree, distances *)
(*    fixed-point numbers in tenths of a mile, times are milliseconds.     *)
(***************************************************************************)
EXTENDS Integers, Sequences, FiniteSets, TLC

-----------------------------------------------------------------------------
(* String helpers (String.prototype methods used by the sources)            *)

UpperLetters ==
    <<"A", "B", "C", "D", "E", "F", "G", "H", "I", "J", "K", "L", "M",
      "N", "O", "P", "Q", "R", "S", "T", "U", "V", "W", "X", "Y", "Z">>

LowerLetters ==
    <<"a", "b", "c", "d", "e", "f", "g", "h", "i", "j", "k", "l", "m",
      "n", "o", "p", "q", "r", "s", "t", "u", "v", "w", "x", "y", "z">>

\* one character of String.prototype.toLowerCase
LowerChar(c) ==
    IF \E i \in 1..26 : UpperLetters[i] = c
    THEN LowerLetters[CHOOSE i \in 1..26 : UpperLetters[i] = c]
    ELSE c

\* String.prototype.toLowerCase
toLowerCase(s) == [i \in 1..Len(s) |-> LowerChar(s[i])]

\* hay.startsWith(needle, at - 1): needle occurs in hay at position at
OccursAt(hay, needle, at) ==
    /\ at >= 1
    /\ at + Len(needle) - 1 <= Len(hay)
    /\ \A i \in 1..Len(needle) : hay[at + i - 1] = needle[i]

\* String.prototype.includes
includes(hay, needle) ==
    \E at \in 1..(Len(hay) + 1) : OccursAt(hay, needle, at)

\* the regular expression class \s, and the characters trim() removes
IsSpace(c) == c \in {" ", "\t", "\n"}

RECURSIVE TrimLeft(_)
TrimLeft(s) ==
    IF s # <<>> /\ IsSpace(Head(s)) THEN TrimLeft(Tail(s)) ELSE s

RECURSIVE TrimRight(_)
TrimRight(s) ==
    IF s # <<>> /\ IsSpace(s[Len(s)])
    THEN TrimRight(SubSeq(s, 1, Len(s) - 1))
    ELSE s

\* String.prototype.trim
trim(s) == TrimRight(TrimLeft(s))

\* a JavaScript value used as a condition: a present, non-empty string
TruthyStr(obj, key) == key \in DOMAIN obj /\ obj[key] # <<>>

\* a JavaScript value used as a condition: a present, non-zero number
TruthyNum(obj, key) == key \in DOMAIN obj /\ obj[key] # 0

-----------------------------------------------------------------------------
(* String literals of the sources                                           *)

S_EVgo == <<"E", "V", "g", "o">>
S_ChargePoint == <<"C", "h", "a", "r", "g", "e", "P", "o", "i", "n", "t">>
S_ElectrifyAmerica ==
    <<"E", "l", "e", "c", "t", "r", "i", "f", "y", " ", "A", "m", "e", "r", "i", "c", "a">>
S_TeslaSupercharger ==
    <<"T", "e", "s", "l", "a", " ", "S", "u", "p", "e", "r", "c", "h", "a", "r", "g", "e", "r">>
S_ChargePointNetwork ==
    <<"C", "h", "a", "r", "g", "e", "P", "o", "i", "n", "t", " ", "N", "e", "t", "w", "o", "r", "k">>
S_EVConnect == <<"E", "V", " ", "C", "o", "n", "n", "e", "c", "t">>
S_ShellRecharge ==
    <<"S", "h", "e", "l", "l", " ", "R", "e", "c", "h", "a", "r", "g", "e">>
S_Blink == <<"B", "l", "i", "n", "k">>
S_EVStation == <<"E", "V", " ", "S", "t", "a", "t", "i", "o", "n">>
S_Network == <<"N", "e", "t", "w", "o", "r", "k">>
S_UnnamedStation ==
    <<"U", "n", "n", "a", "m", "e", "d", " ", "S", "t", "a", "t", "i", "o", "n">>
S_UnknownNetwork ==
    <<"U", "n", "k", "n", "o", "w", "n", " ", "N", "e", "t", "w", "o", "r", "k">>
S_AddressNotAvailable ==
    <<"A", "d", "d", "r", "e", "s", "s", " ", "n", "o", "t", " ",
      "a", "v", "a", "i", "l", "a", "b", "l", "e">>
S_UnknownCity == <<"U", "n", "k", "n", "o", "w", "n", " ", "C", "i", "t", "y">>
S_UnknownState == <<"U", "n", "k", "n", "o", "w", "n", " ", "S", "t", "a", "t", "e">>
S_unknown == <<"u", "n", "k", "n", "o", "w", "n">>
S_247 == <<"2", "4", "/", "7">>
S_NA == <<"N", "/", "A">>
S_unknownDash == <<"u", "n", "k", "n", "o", "w", "n", "-">>
S_Level1 == <<"L", "e", "v", "e", "l", " ", "1">>
S_Level2 == <<"L", "e", "v", "e", "l", " ", "2">>
S_DCFastCharging ==
    <<"D", "C", " ", "F", "a", "s", "t", " ", "C", "h", "a", "r", "g", "i", "n", "g">>
S_DCFast == <<"D", "C", " ", "F", "a", "s", "t">>
S_Level2J1772 ==
    <<"L", "e", "v", "e", "l", " ", "2", " ", "(", "J", "1", "7", "7", "2", ")">>
S_DCFastCHAdeMO ==
    <<"D", "C", " ", "F", "a", "s", "t", " ", "(", "C", "H", "A", "d", "e", "M", "O", ")">>
S_DCFastCCSCombo ==
    <<"D", "C", " ", "F", "a", "s", "t", " ", "(", "C", "C", "S", " ", "C", "o", "m", "b", "o", ")">>
S_CCSCombo == <<"C", "C", "S", " ", "C", "o", "m", "b", "o">>
S_Unknown == <<"U", "n", "k", "n", "o", "w", "n">>
S_J1772 == <<"J", "1", "7", "7", "2">>
S_CHADEMO == <<"C", "H", "A", "D", "E", "M", "O">>
S_CCS == <<"C", "C", "S">>
S_J1772COMBO == <<"J", "1", "7", "7", "2", "C", "O", "M", "B", "O">>
S_TESLA == <<"T", "E", "S", "L", "A">>

-----------------------------------------------------------------------------
(* Normalizer: utils.js                                                     *)

\* the alternatives of the prefix group of cleanStationName's first regex
BrandPrefixes ==
    {S_EVgo, S_ChargePoint, S_ElectrifyAmerica, S_TeslaSupercharger,
     S_ChargePointNetwork, S_EVConnect, S_ShellRecharge, S_Blink}

\* /^(brand)\s-\s/i matches name with this brand
MatchesBrand(name, b) ==
    /\ Len(name) >= Len(b) + 3
    /\ OccursAt(toLowerCase(name), toLowerCase(b), 1)
    /\ IsSpace(name[Len(b) + 1])
    /\ name[Len(b) + 2] = "-"
    /\ IsSpace(name[Len(b) + 3])

\* name.replace(/^(EVgo|...|Blink)\s-\s/i, '')
StripBrand(name) ==
    IF \E b \in BrandPrefixes : MatchesBrand(name, b)
    THEN LET b == CHOOSE b \in BrandPrefixes : MatchesBrand(name, b)
         IN  SubSeq(name, Len(b) + 4, Len(name))
    ELSE name

\* cleaned.replace(/\sEV Station$/, '')
StripEVStation(s) ==
    LET n == Len(s) - Len(S_EVStation)
    IN  IF n >= 1 /\ IsSpace(s[n]) /\ OccursAt(s, S_EVStation, n + 1)
        THEN SubSeq(s, 1, n - 1)
        ELSE s

cleanStationName(station) ==
    IF ~TruthyStr(station, "station_name") THEN S_UnnamedStation
    ELSE LET cleaned == trim(StripEVStation(StripBrand(station.station_name)))
         IN  IF cleaned # <<>> THEN cleaned ELSE S_UnnamedStation

\* network.replace(/Network$/, '')
StripNetwork(s) ==
    LET n == Len(s) - Len(S_Network)
    IN  IF n >= 0 /\ OccursAt(s, S_Network, n + 1) THEN SubSeq(s, 1, n) ELSE s

cleanNetworkName(station) ==
    IF ~TruthyStr(station, "ev_network") THEN S_UnknownNetwork
    ELSE LET cleaned == trim(StripNetwork(station.ev_network))
         IN  IF cleaned # <<>> THEN cleaned ELSE S_UnknownNetwork

\* connectors.some(c => c.type === label)
HasType(connectors, label) ==
    \E i \in 1..Len(connectors) : connectors[i].type = label

\* connectors.some(c => c.type === part) in place of includes
HasTypeIncluding_Exact(connectors, part) ==
    \E i \in 1..Len(connectors) : connectors[i].type = part

\* connectors.some(c => c.type.includes(part))
HasTypeIncluding(connectors, part) ==
    \E i \in 1..Len(connectors) : includes(connectors[i].type, part)

\* station.ev_level2_evse_num || station.ev_dc_fast_num || 0
PortCount_FallbackZero(station) ==
    IF TruthyNum(station, "ev_level2_evse_num") THEN station.ev_level2_evse_num
    ELSE IF TruthyNum(station, "ev_dc_fast_num") THEN station.ev_dc_fast_num
    ELSE 0

\* station.ev_level2_evse_num || station.ev_dc_fast_num || 1
PortCount(station) ==
    IF TruthyNum(station, "ev_level2_evse_num") THEN station.ev_level2_evse_num
    ELSE IF TruthyNum(station, "ev_dc_fast_num") THEN station.ev_dc_fast_num
    ELSE 1

\* one iteration of portTypes.forEach in parseConnectors
AddPortType(connectors, station, type) ==
    LET entry(label) == [type |-> label, ports |-> PortCount(station)]
    IN  IF type = S_J1772
        THEN IF ~HasType(connectors, S_Level2J1772)
             THEN Append(connectors, entry(S_Level2J1772)) ELSE connectors
        ELSE IF type = S_CHADEMO
        THEN IF ~HasType(connectors, S_DCFastCHAdeMO)
             THEN Append(connectors, entry(S_DCFastCHAdeMO)) ELSE connectors
        ELSE IF type = S_CCS \/ type = S_J1772COMBO
        THEN IF ~HasTypeIncluding(connectors, S_CCSCombo)
             THEN Append(connectors, entry(S_DCFastCCSCombo)) ELSE connectors
        ELSE IF type = S_TESLA
        THEN IF ~HasTypeIncluding(connectors, S_TeslaSupercharger)
             THEN Append(connectors, entry(S_TeslaSupercharger)) ELSE connectors
        ELSE connectors

RECURSIVE AddPortTypes(_, _, _)
AddPortTypes(connectors, station, types) ==
    IF types = <<>> THEN connectors
    ELSE AddPortTypes(AddPortType(connectors, station, Head(types)),
                      station, Tail(types))

parseConnectors(station) ==
    LET c1 == IF TruthyNum(station, "ev_level1_evse_num")
              THEN <<[type |-> S_Level1, ports |-> station.ev_level1_evse_num]>>
              ELSE <<>>
        c2 == IF TruthyNum(station, "ev_level2_evse_num")
              THEN Append(c1, [type |-> S_Level2, ports |-> station.ev_level2_evse_num])
              ELSE c1
        c3 == IF TruthyNum(station, "ev_dc_fast_num")
              THEN Append(c2, [type |-> S_DCFastCharging, ports |-> station.ev_dc_fast_num])
              ELSE c2
        portTypes == IF "ev_connector_types" \in DOMAIN station
                     THEN station.ev_connector_types ELSE <<>>
        connectors == AddPortTypes(c3, station, portTypes)
    IN  IF Len(connectors) > 0 THEN connectors
        ELSE <<[type |-> S_Unknown, ports |-> 1]>>

IsDigit(c) == c \in {"0", "1", "2", "3", "4", "5", "6", "7", "8", "9"}

DigitValue(c) ==
    CASE c = "0" -> 0 [] c = "1" -> 1 [] c = "2" -> 2 [] c = "3" -> 3
      [] c = "4" -> 4 [] c = "5" -> 5 [] c = "6" -> 6 [] c = "7" -> 7
      [] c = "8" -> 8 [] c = "9" -> 9

\* the value of the longest prefix of s made of decimal digits (acc so far)
RECURSIVE ParseDigits(_, _)
ParseDigits(s, acc) ==
    IF s # <<>> /\ IsDigit(Head(s))
    THEN ParseDigits(Tail(s), 10 * acc + DigitValue(Head(s)))
    ELSE acc

RECURSIVE DropDigits(_)
DropDigits(s) == IF s # <<>> /\ IsDigit(Head(s)) THEN DropDigits(Tail(s)) ELSE s

\* parseFloat(s) in tenths: [nan |-> TRUE] when s starts no decimal number.
\* Digits after the first decimal are below the precision of the fixed point.
parseFloat(s) ==
    LET t    == TrimLeft(s)
        neg  == t # <<>> /\ Head(t) = "-"
        u    == IF t # <<>> /\ Head(t) \in {"-", "+"} THEN Tail(t) ELSE t
        rest == DropDigits(u)
        hasInt  == u # <<>> /\ IsDigit(Head(u))
        hasFrac == Len(rest) >= 2 /\ rest[1] = "." /\ IsDigit(rest[2])
        mag  == 10 * ParseDigits(u, 0) + (IF hasFrac THEN DigitValue(rest[2]) ELSE 0)
    IN  IF hasInt \/ hasFrac
        THEN [nan |-> FALSE, v |-> IF neg THEN 0 - mag ELSE mag]
        ELSE [nan |-> TRUE, v |-> 0]

\* parseFloat(station[key]) || 0
CoordOrZero(station, key) ==
    IF key \in DOMAIN station
    THEN LET f == parseFloat(station[key]) IN IF f.nan THEN 0 ELSE f.v
    ELSE 0

\* station[key] || '', whatever the fallback
StrOr_EmptyFallback(station, key, fallback) ==
    IF TruthyStr(station, key) THEN station[key] ELSE <<>>

\* station[key] || fallback, for a string field
StrOr(station, key, fallback) ==
    IF TruthyStr(station, key) THEN station[key] ELSE fallback

\* one element of rawStations.map in processRawStations; random is the string
\* Math.random().toString(36).substr(2, 9) drawn for this element
processRawStation(station, random) ==
    [id        |-> StrOr(station, "id", S_unknownDash \o random),
     name      |-> cleanStationName(station),
     address   |-> StrOr(station, "street_address", S_AddressNotAvailable),
     city      |-> StrOr(station, "city", S_UnknownCity),
     state     |-> StrOr(station, "state", S_UnknownState),
     zip       |-> StrOr(station, "zip", <<>>),
     latitude  |-> CoordOrZero(station, "latitude"),
     longitude |-> CoordOrZero(station, "longitude"),
     network   |-> cleanNetworkName(station),
     connectors |-> parseConnectors(station),
     access    |-> StrOr(station, "access_code", S_unknown),
     hours     |-> StrOr(station, "access_days_time", S_247),
     phone     |-> StrOr(station, "station_phone", S_NA),
     website   |-> StrOr(station, "ev_network_web", <<>>)]

\* processRawStations(rawStations); randoms[i] is the random draw of element i
processRawStations(rawStations, randoms) ==
    [i \in 1..Len(rawStations) |-> processRawStation(rawStations[i], randoms[i])]

\* A raw record may carry fields whose value has another type than the one the
\* NREL documentation gives: a number where a string is documented, a string
\* where a list is documented.  Such a field is named in the record's
\* `unexpected` set and its value, which is truthy, is not held.
Unexpected(station, key) ==
    "unexpected" \in DOMAIN station /\ key \in station.unexpected

\* the element of rawStations.map throws a TypeError:
\*   name.replace is not a function        (cleanStationName, utils.js:26)
\*   network.replace is not a function     (cleanNetworkName, utils.js:39)
\*   portTypes.forEach is not a function   (parseConnectors, utils.js:60-61)
\* every other field is read through || or parseFloat, which accept any value
processRawStationThrows(station) ==
    \/ Unexpected(station, "station_name")
    \/ Unexpected(station, "ev_network")
    \/ Unexpected(station, "ev_connector_types")

\* processRawStations(rawStations) throws: Array.prototype.map lets the
\* exception of its callback through
processRawStationsThrows(rawStations) ==
    \E i \in 1..Len(rawStations) : processRawStationThrows(rawStations[i])

-----------------------------------------------------------------------------
(* Configuration: config.js                                                 *)

ITEMS_PER_PAGE == 20
CACHE_DURATION == 1000 * 60 * 60
DEFAULT_SEARCH_RADIUS == 50
MAX_INITIAL_LOAD == 200

-----------------------------------------------------------------------------
(* Geo math: utils.js getDistance                                           *)

\* floor of the square root, by bisection on lo..hi
RECURSIVE SqrtBetween(_, _, _)
SqrtBetween(n, lo, hi) ==
    IF lo >= hi THEN lo
    ELSE LET mid == (lo + hi + 1) \div 2
         IN  IF mid * mid <= n THEN SqrtBetween(n, mid, hi)
             ELSE SqrtBetween(n, lo, mid - 1)

\* Math.sqrt, rounded down
Sqrt(n) == SqrtBetween(n, 0, 46340)

\* R * Math.PI / 180 with R = 3958.8: 69.09 miles for one degree of arc, which
\* is 691 hundredths of a mile for one tenth of a degree
MilesPerDegree == 691

\* Math.cos(lat * Math.PI / 180) in units of 1/10000 for lat in tenths of a
\* degree: 1 - x^2/2 with x = lat * 0.00174533 (exact to 1/10000 below 10 degrees)
Cos(lat) == 10000 - (15231 * lat * lat) \div 1000000

\* getDistance with the cosine of the first latitude taken twice
getDistance_CosOfFirst(lat1, lon1, lat2, lon2) ==
    LET dLat == lat2 - lat1
        dLon == lon2 - lon1
        cc   == (Cos(lat1) * Cos(lat1)) \div 10000
        a    == dLat * dLat * 10000 + cc * dLon * dLon
    IN  (MilesPerDegree * Sqrt(a)) \div 1000

\* getDistance(lat1, lon1, lat2, lon2) in tenths of a mile, coordinates in tenths
\* of a degree.  For the small arcs of the model sin(x/2) = x/2 and
\* 2 * atan2(sqrt(a), sqrt(1 - a)) = 2 * sqrt(a), so that
\*   distance = R * sqrt(dLat^2 + cos(lat1) * cos(lat2) * dLon^2)
getDistance(lat1, lon1, lat2, lon2) ==
    LET dLat == lat2 - lat1
        dLon == lon2 - lon1
        cc   == (Cos(lat1) * Cos(lat2)) \div 10000
        a    == dLat * dLat * 10000 + cc * dLon * dLon
    IN  (MilesPerDegree * Sqrt(a)) \div 1000

\* R * Math.PI / 180 with R = 6371: 111.19 km for one degree of arc, which is
\* 1112 hundredths of a km for one tenth of a degree
KmPerDegree == 1112

\* part_002 haversineKm(lat1, lon1, lat2, lon2) in tenths of a km; for the
\* small arcs of the model 2 * R * asin(sqrt(a)) = 2 * R * sqrt(a)
haversineKm(lat1, lon1, lat2, lon2) ==
    LET dLat == lat2 - lat1
        dLon == lon2 - lon1
        cc   == (Cos(lat1) * Cos(lat2)) \div 10000
        a    == dLat * dLat * 10000 + cc * dLon * dLon
    IN  (KmPerDegree * Sqrt(a)) \div 1000

\* the distance of a station from userLocation, as every caller computes it
DistanceFrom(loc, station) ==
    getDistance(loc.latitude, loc.longitude, station.latitude, station.longitude)

-----------------------------------------------------------------------------
(* Application state: script.js appState                                    *)

S_all == <<"a", "l", "l">>

\* appState.userLocation = null
NullLocation == [isNull |-> TRUE, latitude |-> 0, longitude |-> 0]

Location(lat, lon) == [isNull |-> FALSE, latitude |-> lat, longitude |-> lon]

DefaultFilters ==
    [state |-> S_all, network |-> S_all, charger |-> "all", search |-> <<>>]

InitialAppState ==
    [allStations      |-> <<>>,
     filteredStations |-> <<>>,
     currentFilters   |-> DefaultFilters,
     currentPage      |-> 1,
     totalPages       |-> 1,
     userLocation     |-> NullLocation,
     isInitialized    |-> FALSE]

\* Math.ceil(n / CONFIG.ITEMS_PER_PAGE)
CeilPages(n) == (n + ITEMS_PER_PAGE - 1) \div ITEMS_PER_PAGE

-----------------------------------------------------------------------------
(* Presentation: ui.js (the variant filters.js and script.js import)        *)

InitialUi ==
    [apiStatus   |-> "",
     loading     |-> TRUE,     \* the grid holds the .loading element
     cards       |-> <<>>,     \* ids of the station cards in the grid
     noResults   |-> FALSE,    \* elements.noResults is displayed
     pagination  |-> FALSE,    \* elements.pagination is displayed
     pageInfo    |-> <<1, 1>>,
     locationBtnDisabled |-> FALSE,
     refreshBtnDisabled  |-> FALSE]

updateApiStatus(u, status) == [u EXCEPT !.apiStatus = status]

showLoadingSpinner(u, show) ==
    IF show
    THEN [u EXCEPT !.loading = TRUE, !.cards = <<>>,
                   !.pagination = FALSE, !.noResults = FALSE]
    ELSE [u EXCEPT !.loading = FALSE, !.cards = <<>>]

updatePagination(u, currentPage, totalPages) ==
    IF totalPages <= 1 THEN [u EXCEPT !.pagination = FALSE]
    ELSE [u EXCEPT !.pagination = TRUE, !.pageInfo = <<currentPage, totalPages>>]

\* mutant of PageSlice: the slice ends one element early
PageSlice_DropsLast(stations, currentPage) ==
    LET startIndex == (currentPage - 1) * ITEMS_PER_PAGE
        endIndex   == startIndex + ITEMS_PER_PAGE - 1
        last       == IF endIndex < Len(stations) THEN endIndex ELSE Len(stations)
    IN  IF startIndex < 0 THEN <<>> ELSE SubSeq(stations, startIndex + 1, last)

\* stationsToRender.slice(startIndex, endIndex) of page currentPage
PageSlice(stations, currentPage) ==
    LET startIndex == (currentPage - 1) * ITEMS_PER_PAGE
        endIndex   == startIndex + ITEMS_PER_PAGE
        last       == IF endIndex < Len(stations) THEN endIndex ELSE Len(stations)
    IN  IF startIndex < 0 THEN <<>> ELSE SubSeq(stations, startIndex + 1, last)

StationIds(stations) == [i \in 1..Len(stations) |-> stations[i].id]

RECURSIVE renderStations(_, _, _)
renderStations(u, stationsToRender, currentPage) ==
    LET cleared == showLoadingSpinner([u EXCEPT !.cards = <<>>], FALSE)
        paginatedStations == PageSlice(stationsToRender, currentPage)
    IN  IF Len(paginatedStations) = 0 /\ Len(stationsToRender) > 0
        THEN renderStations(u, stationsToRender, 1)
        ELSE IF Len(paginatedStations) = 0
        THEN [cleared EXCEPT !.noResults = TRUE, !.pagination = FALSE]
        ELSE updatePagination(
                 [cleared EXCEPT !.noResults = FALSE,
                                 !.cards = StationIds(paginatedStations)],
                 currentPage, CeilPages(Len(stationsToRender)))

\* toggleNoResults(show): with show false it reads elements.filteredStations.length,
\* and elements has no filteredStations: a TypeError, after noResults is hidden
toggleNoResultsThrows(show) == ~show

toggleNoResults(u, show) ==
    IF show THEN [u EXCEPT !.noResults = TRUE, !.pagination = FALSE]
    ELSE [u EXCEPT !.noResults = FALSE]

-----------------------------------------------------------------------------
(* Filter/sort engine: filters.js                                           *)

\* the search predicate of applyAllFilters
MatchesSearch(station, search) ==
    LET lowerCaseQuery == toLowerCase(search)
    IN  \/ includes(toLowerCase(station.name), lowerCaseQuery)
        \/ includes(toLowerCase(station.address), lowerCaseQuery)
        \/ includes(toLowerCase(station.city), lowerCaseQuery)
        \/ includes(toLowerCase(station.zip), lowerCaseQuery)
        \/ includes(toLowerCase(station.network), lowerCaseQuery)

\* the predicate of the charger filter on one connector
ConnectorMatches(conn, chargerType) ==
    IF chargerType = "dc_fast" THEN includes(conn.type, S_DCFast)
    ELSE IF chargerType = "level2" THEN includes(conn.type, S_Level2)
    ELSE IF chargerType = "level1" THEN includes(conn.type, S_Level1)
    ELSE FALSE

MatchesCharger(station, chargerType) ==
    \E i \in 1..Len(station.connectors) :
        ConnectorMatches(station.connectors[i], chargerType)

\* mutant of RadiusCutApplies: the radius cut also runs during a search
RadiusCutApplies_IgnoringSearch(userLocation, filters) ==
    ~userLocation.isNull

\* the location filter runs: userLocation is set and there is no search text
RadiusCutApplies(userLocation, filters) ==
    ~userLocation.isNull /\ filters.search = <<>>

\* distance <= CONFIG.DEFAULT_SEARCH_RADIUS (miles; distances are in tenths)
WithinRadius(userLocation, station) ==
    DistanceFrom(userLocation, station) <= DEFAULT_SEARCH_RADIUS * 10

\* mutant of NotAfter: the comparator is distB - distA
NotAfter_Reversed(userLocation, a, b) ==
    DistanceFrom(userLocation, b) - DistanceFrom(userLocation, a) <= 0

\* the comparator of the sort is negative or zero: a stays before b
NotAfter(userLocation, a, b) ==
    DistanceFrom(userLocation, a) - DistanceFrom(userLocation, b) <= 0

\* x inserted into the sorted sequence behind every element it does not precede
RECURSIVE InsertSorted(_, _, _)
InsertSorted(userLocation, sorted, x) ==
    IF sorted = <<>> THEN <<x>>
    ELSE IF NotAfter(userLocation, Head(sorted), x)
    THEN <<Head(sorted)>> \o InsertSorted(userLocation, Tail(sorted), x)
    ELSE <<x>> \o sorted

\* Array.prototype.sort with the distance comparator (a stable sort)
RECURSIVE SortByDistance(_, _)
SortByDistance(userLocation, stations) ==
    IF stations = <<>> THEN <<>>
    ELSE InsertSorted(userLocation,
                      SortByDistance(userLocation,
                                     SubSeq(stations, 1, Len(stations) - 1)),
                      stations[Len(stations)])

\* if (active) tempStations = tempStations.filter(Keeps)
FilterIf(active, tempStations, Keeps(_)) ==
    IF active THEN SelectSeq(tempStations, Keeps) ELSE tempStations

\* if (appState.userLocation) tempStations.sort(...)
SortIf(userLocation, tempStations) ==
    IF ~userLocation.isNull THEN SortByDistance(userLocation, tempStations)
    ELSE tempStations

\* mutant of FilterStations: the network filter is left out
FilterStations_NoNetworkFilter(allStations, filters, userLocation) ==
    LET t1 == FilterIf(filters.search # <<>>, allStations,
                       LAMBDA s : MatchesSearch(s, filters.search))
        t2 == FilterIf(filters.state # S_all, t1,
                       LAMBDA s : s.state = filters.state)
        t4 == FilterIf(filters.charger # "all", t2,
                       LAMBDA s : MatchesCharger(s, filters.charger))
        t5 == FilterIf(RadiusCutApplies(userLocation, filters), t4,
                       LAMBDA s : WithinRadius(userLocation, s))
    IN  SortIf(userLocation, t5)

\* the value applyAllFilters assigns to appState.filteredStations
FilterStations(allStations, filters, userLocation) ==
    LET t1 == FilterIf(filters.search # <<>>, allStations,
                       LAMBDA s : MatchesSearch(s, filters.search))
        t2 == FilterIf(filters.state # S_all, t1,
                       LAMBDA s : s.state = filters.state)
        t3 == FilterIf(filters.network # S_all, t2,
                       LAMBDA s : s.network = filters.network)
        t4 == FilterIf(filters.charger # "all", t3,
                       LAMBDA s : MatchesCharger(s, filters.charger))
        t5 == FilterIf(RadiusCutApplies(userLocation, filters), t4,
                       LAMBDA s : WithinRadius(userLocation, s))
    IN  SortIf(userLocation, t5)

\* the end of applyAllFilters, with tempStations filtered and sorted: the new
\* appState, the new page, and whether toggleNoResults threw
ShowFiltered(app, u, tempStations) ==
    [app   |-> [app EXCEPT !.filteredStations = tempStations,
                          !.totalPages = CeilPages(Len(tempStations))],
     ui    |-> toggleNoResults(renderStations(u, tempStations, app.currentPage),
                               Len(tempStations) = 0),
     threw |-> toggleNoResultsThrows(Len(tempStations) = 0)]

\* applyAllFilters()
applyAllFilters(app, u) ==
    ShowFiltered(app, u, FilterStations(app.allStations, app.currentFilters,
                                        app.userLocation))

\* applyFilter(filterType, value)
applyFilter(app, u, filterType, value) ==
    applyAllFilters([app EXCEPT !.currentFilters[filterType] = value,
                                !.currentPage = 1], u)

\* mutant of clearAllFilters: appState.userLocation is not set to null
clearAllFilters_KeepsLocation(app, u) ==
    applyAllFilters([app EXCEPT !.currentFilters = DefaultFilters], u)

\* clearAllFilters()
clearAllFilters(app, u) ==
    applyAllFilters([app EXCEPT !.currentFilters = DefaultFilters,
                                !.userLocation = NullLocation], u)

-----------------------------------------------------------------------------
(* State                                                                    *)

VARIABLES
    now,           \* Date.now(), in milliseconds
    localStorage,  \* window.localStorage: a function from the keys it holds
    storageState,  \* "ok", "full" (setItem throws) or "unavailable" (all throw)
    proc,          \* the asynchronous handlers in flight, one record each
    appState,      \* script.js appState
    ui,            \* the DOM elements of ui.js
    capturedAt,    \* history: the time each cached station list was captured
    hist,          \* history: calls started, completion orders, last resolution
    last           \* history: the operation that ran last, and the state before

vars == <<now, localStorage, storageState, proc, appState, ui,
          capturedAt, hist, last>>

-----------------------------------------------------------------------------
(* Raw station records, as the third-party API delivers them                *)

RawAlpha ==
    [id |-> <<"1">>,
     station_name |-> <<"E", "V", "g", "o", " ", "-", " ", "A", "l", "p", "h", "a">>,
     city |-> <<"A", "m", "e", "s">>,
     state |-> <<"C", "A">>,
     zip |-> <<"9", "4", "1", "0", "5">>,
     latitude |-> <<"1", ".", "0">>,
     longitude |-> <<"1", ".", "0">>,
     ev_network |-> <<"E", "V", "g", "o", " ", "N", "e", "t", "w", "o", "r", "k">>,
     ev_level2_evse_num |-> 2,
     ev_connector_types |-> <<S_J1772>>]

RawBeta ==
    [id |-> <<"2">>,
     station_name |-> <<"B", "e", "t", "a", " ", "E", "V", " ", "S", "t", "a", "t", "i", "o", "n">>,
     state |-> <<"C", "A">>,
     latitude |-> <<"1", ".", "7">>,
     longitude |-> <<"1", ".", "0">>,
     ev_network |-> <<"B", "l", "i", "n", "k">>,
     ev_dc_fast_num |-> 1,
     ev_connector_types |-> <<S_CCS, S_J1772COMBO>>]

RawGamma ==
    [id |-> <<"3">>,
     station_name |-> <<"G", "a", "m", "m", "a">>,
     state |-> <<"N", "Y">>,
     latitude |-> <<"1", ".", "8">>,
     longitude |-> <<"1", ".", "0">>,
     ev_level1_evse_num |-> 1]

RawDelta ==
    [id |-> <<"4">>,
     state |-> <<"N", "Y">>,
     latitude |-> <<"1", ".", "3">>,
     longitude |-> <<"1", ".", "0">>,
     ev_network |-> <<"E", "V", "g", "o", " ", "N", "e", "t", "w", "o", "r", "k">>,
     ev_level2_evse_num |-> 4,
     ev_dc_fast_num |-> 2]

\* a record with no id and none of the optional fields
RawBare == [fuel_type_code |-> <<"E", "L", "E", "C">>]

RawPool == {RawAlpha, RawBeta, RawGamma, RawDelta, RawBare}

\* the values Math.random().toString(36).substr(2, 9) takes in the model
RandomIds == {<<"k", "3">>, <<"x", "7">>}

\* the normalized stations the filter engine is run on
StationPool ==
    {processRawStation(r, <<"k", "3">>) : r \in {RawAlpha, RawBeta, RawGamma, RawBare}}

\* all sequences over S of length at most n
SeqsUpTo(S, n) == UNION {[1..k -> S] : k \in 0..n}

-----------------------------------------------------------------------------
(* The filter engine on its own: applyAllFilters over bounded inputs        *)

MaxStations == 3

StateFilterValues == {S_all, <<"C", "A">>, <<"N", "Y">>}
NetworkFilterValues == {S_all, <<"E", "V", "g", "o">>}
ChargerFilterValues == {"all", "level1", "level2", "dc_fast"}
SearchValues == {<<>>, <<"G", "A", "M">>, <<"a">>}
UserLocations == {Location(10, 10), Location(17, 10)}

FilterInputs ==
    {[InitialAppState EXCEPT
          !.allStations = all,
          !.currentFilters = [state |-> st, network |-> nw,
                              charger |-> ch, search |-> se],
          !.userLocation = loc] :
       all \in SeqsUpTo(StationPool, MaxStations),
       st \in StateFilterValues, nw \in NetworkFilterValues,
       ch \in ChargerFilterValues, se \in SearchValues,
       loc \in UserLocations \cup {NullLocation}}

\* nothing has been started, no two overlapping calls have been seen to finish,
\* no call has resolved
NoHist ==
    [started |-> 0, clicks |-> 0, seen |-> {},
     lastResolved |-> [handler |-> "none", stations |-> <<>>,
                       location |-> NullLocation, overtaken |-> FALSE]]

\* everything but the application state, before anything has run
QuietEnvironment ==
    /\ now = 0
    /\ localStorage = <<>>
    /\ storageState = "ok"
    /\ capturedAt = <<>>
    /\ proc = <<>>
    /\ hist = NoHist
    /\ ui = InitialUi

InitFilter ==
    /\ QuietEnvironment
    /\ appState \in FilterInputs
    /\ last = [op |-> "none", before |-> appState]

\* applyAllFilters() runs on the current appState
RunApplyAllFilters ==
    /\ last.op = "none"
    /\ LET r == applyAllFilters(appState, ui)
       IN  /\ appState' = r.app
           /\ ui' = r.ui
           /\ last' = [op |-> "applyAllFilters", before |-> appState]
    /\ UNCHANGED <<now, localStorage, storageState, proc, capturedAt, hist>>

\* clearAllFilters() runs on the current appState
RunClearAllFilters ==
    /\ last.op = "none"
    /\ LET r == clearAllFilters(appState, ui)
       IN  /\ appState' = r.app
           /\ ui' = r.ui
           /\ last' = [op |-> "clearAllFilters", before |-> appState]
    /\ UNCHANGED <<now, localStorage, storageState, proc, capturedAt, hist>>

NextFilter == RunApplyAllFilters \/ RunClearAllFilters

SpecFilter == InitFilter /\ [][NextFilter]_vars

-----------------------------------------------------------------------------
(* Properties of the filter engine                                          *)

\* the elements of a sequence
Range(seq) == {seq[i] : i \in 1..Len(seq)}

\* how often x occurs in seq
Occurrences(seq, x) == Cardinality({i \in 1..Len(seq) : seq[i] = x})

\* sub can be obtained from seq by deleting elements
RECURSIVE IsSubsequence(_, _)
IsSubsequence(sub, seq) ==
    IF sub = <<>> THEN TRUE
    ELSE IF seq = <<>> THEN FALSE
    ELSE IF Head(sub) = Head(seq) THEN IsSubsequence(Tail(sub), Tail(seq))
    ELSE IsSubsequence(sub, Tail(seq))

\* applyAllFilters has just run on the state last.before
Filtered == last.op = "applyAllFilters"

\* the search text and the three categorical filters all accept the station
PassesTextAndCategories(station, filters) ==
    /\ filters.charger = "all" \/ MatchesCharger(station, filters.charger)
    /\ filters.network = S_all \/ station.network = filters.network
    /\ filters.state = S_all \/ station.state = filters.state
    /\ filters.search = <<>> \/ MatchesSearch(station, filters.search)

\* every active predicate accepts the station, the radius included when it is
\* applicable (a location is set and the search text is empty)
PassesAll(station, filters, userLocation) ==
    /\ (~userLocation.isNull /\ filters.search = <<>>)
           => DistanceFrom(userLocation, station) <= DEFAULT_SEARCH_RADIUS * 10
    /\ PassesTextAndCategories(station, filters)

\* C8: with userLocation set and a non-empty search text the radius cut is not
\* applied: every station of allStations that matches the search text and the
\* categorical filters is in filteredStations, however far it is; with
\* userLocation set and an empty search text no station farther than
\* DEFAULT_SEARCH_RADIUS is in filteredStations, and with userLocation null the
\* distance never excludes a station.
C8_RadiusCutOnlyWithoutSearch ==
    Filtered =>
      LET f   == appState.currentFilters
          loc == appState.userLocation
          matching == {s \in Range(appState.allStations) :
                           PassesTextAndCategories(s, f)}
      IN  /\ (~loc.isNull /\ f.search # <<>>)
                => matching = Range(appState.filteredStations)
          /\ (~loc.isNull /\ f.search = <<>>)
                => Range(appState.filteredStations) =
                     {s \in matching :
                        DistanceFrom(loc, s) <= DEFAULT_SEARCH_RADIUS * 10}
          /\ loc.isNull => matching = Range(appState.filteredStations)

\* C8 witness: a search with a location set kept a station beyond the radius
C8_Witness ==
    /\ Filtered
    /\ ~appState.userLocation.isNull
    /\ appState.currentFilters.search # <<>>
    /\ \E s \in Range(appState.filteredStations) :
           DistanceFrom(appState.userLocation, s) > DEFAULT_SEARCH_RADIUS * 10
    /\ ~last.before.userLocation.isNull

\* C9: filteredStations holds exactly the stations of allStations that every
\* active predicate accepts, each as often as allStations holds it (none
\* invented, none duplicated, none dropped), whatever the order of the filters.
C9_ExactlyTheConjunction ==
    Filtered =>
      /\ \A s \in Range(appState.allStations) \cup Range(appState.filteredStations) :
            Occurrences(appState.filteredStations, s) =
              IF PassesAll(s, appState.currentFilters, appState.userLocation)
              THEN Occurrences(appState.allStations, s)
              ELSE 0
      /\ appState.allStations = last.before.allStations

\* C9 witness: several filters were active at once, and they kept some stations
\* and removed others
C9_Witness ==
    /\ Filtered
    /\ appState.currentFilters.state # S_all
    /\ appState.currentFilters.charger # "all"
    /\ appState.currentFilters.network # S_all
    /\ appState.filteredStations # <<>>
    /\ Len(appState.filteredStations) < Len(appState.allStations)

\* C10: with userLocation set, filteredStations is in non-decreasing order of
\* distance from userLocation, with or without the radius cut; with userLocation
\* null it is allStations with stations deleted, the others in their order.
C10_SortedByDistance ==
    Filtered =>
      LET fs  == appState.filteredStations
          loc == appState.userLocation
      IN  IF loc.isNull
          THEN IsSubsequence(fs, appState.allStations)
          ELSE \A i \in 1..(Len(fs) - 1) :
                   DistanceFrom(loc, fs[i]) <= DistanceFrom(loc, fs[i + 1])

\* C10 witness: the sort changed the order, in a search (no radius cut)
C10_Witness ==
    /\ Filtered
    /\ ~appState.userLocation.isNull
    /\ appState.currentFilters.search # <<>>
    /\ Len(appState.filteredStations) >= 2
    /\ ~IsSubsequence(appState.filteredStations, appState.allStations)
    /\ \E i \in 1..(Len(appState.filteredStations) - 1) :
           DistanceFrom(appState.userLocation, appState.filteredStations[i])
             < DistanceFrom(appState.userLocation, appState.filteredStations[i + 1])

\* C11: clearAllFilters leaves currentFilters at its defaults, userLocation at
\* null, allStations as it was, and filteredStations equal to allStations, the
\* same elements in the same order.
C11_ClearRestoresFullSet ==
    last.op = "clearAllFilters" =>
        /\ appState.currentFilters = DefaultFilters
        /\ appState.userLocation = NullLocation
        /\ appState.allStations = last.before.allStations
        /\ appState.filteredStations = appState.allStations

\* clearAllFilters has run on a state where every filter was set, the user was
\* located, and the filters and the sort would have left another sequence
C11_Witness ==
    /\ last.op = "clearAllFilters"
    /\ Len(appState.allStations) = MaxStations
    /\ last.before.currentFilters.state # S_all
    /\ last.before.currentFilters.network # S_all
    /\ last.before.currentFilters.charger # "all"
    /\ last.before.currentFilters.search # <<>>
    /\ ~last.before.userLocation.isNull
    /\ SortByDistance(last.before.userLocation, appState.allStations)
           # appState.allStations
    /\ appState.filteredStations = appState.allStations

-----------------------------------------------------------------------------
(* Strings held by localStorage: String(n), parseInt, JSON                  *)

DecimalDigits == <<"0", "1", "2", "3", "4", "5", "6", "7", "8", "9">>

\* String(n) for an integer n >= 0
RECURSIVE NumberToString(_)
NumberToString(n) ==
    IF n < 10 THEN <<DecimalDigits[n + 1]>>
    ELSE NumberToString(n \div 10) \o <<DecimalDigits[(n % 10) + 1]>>

\* parseInt(s) of a string that starts with a digit
parseInt(s) == ParseDigits(s, 0)

\* the JSON text of a coordinate held in tenths of a degree: 17 is "1.7", 10 is "1"
CoordToJSON(v) ==
    LET mag  == IF v < 0 THEN 0 - v ELSE v
        sign == IF v < 0 THEN <<"-">> ELSE <<>>
        frac == IF mag % 10 = 0 THEN <<>> ELSE <<".", DecimalDigits[(mag % 10) + 1]>>
    IN  sign \o NumberToString(mag \div 10) \o frac

ConnectorToJSON(conn) == [conn EXCEPT !.ports = NumberToString(conn.ports)]

ConnectorFromJSON(conn) == [conn EXCEPT !.ports = parseInt(conn.ports)]

\* the JSON text of one station: the numbers become decimal text, strings stay
StationToJSON(station) ==
    [station EXCEPT
        !.latitude = CoordToJSON(station.latitude),
        !.longitude = CoordToJSON(station.longitude),
        !.connectors = [i \in 1..Len(station.connectors) |->
                            ConnectorToJSON(station.connectors[i])]]

StationFromJSON(text) ==
    [text EXCEPT
        !.latitude = parseFloat(text.latitude).v,
        !.longitude = parseFloat(text.longitude).v,
        !.connectors = [i \in 1..Len(text.connectors) |->
                            ConnectorFromJSON(text.connectors[i])]]

\* a string in localStorage: plain text, or the JSON text of one document
PlainText(chars) == [text |-> chars, json |-> <<>>]

\* JSON.stringify(processedStations)
JSONstringify(stations) ==
    [text |-> <<>>,
     json |-> <<[i \in 1..Len(stations) |-> StationToJSON(stations[i])]>>]

\* JSON.parse(cachedData) of a value JSONstringify wrote
JSONparse(value) ==
    LET doc == value.json[1]
    IN  [i \in 1..Len(doc) |-> StationFromJSON(doc[i])]

\* a string is truthy unless it is empty (the JSON text "[]" is not empty)
TruthyItem(value) == value.text # <<>> \/ value.json # <<>>

-----------------------------------------------------------------------------
(* Data source: api.js fetchStations                                        *)

cacheKey == "nrel_stations_cache"
cacheTime == <<"nrel_cache_time">>

\* latitude && longitude && radius: null and 0 are both falsy, null is held as 0
IsLocationQuery(latitude, longitude, radius) ==
    latitude # 0 /\ longitude # 0 /\ radius # 0

\* `${cacheKey}_${latitude}_${longitude}_${radius}` or cacheKey + '_all'
currentCacheKey(latitude, longitude, radius) ==
    IF IsLocationQuery(latitude, longitude, radius)
    THEN <<cacheKey, latitude, longitude, radius>>
    ELSE <<cacheKey, "all">>

\* mutant of CacheIsFresh: no cached entry is ever taken
CacheIsFresh_Never(age) == FALSE

\* age < CONFIG.CACHE_DURATION
CacheIsFresh(age) == age < CACHE_DURATION

\* the answers of fetch() and response.json() the code tells apart:
\*   rejected  fetch() rejects (network error)
\*   ok        response.ok
\*   parses    response.json() resolves
\*   success   body.success is truthy (proxy)
\*   hasList   the body holds stations (proxy), fuel_stations (direct)
Response(rejected, ok, parses, success, hasList, list) ==
    [rejected |-> rejected, ok |-> ok, parses |-> parses,
     success |-> success, hasList |-> hasList, list |-> list]

NetworkError == Response(TRUE, FALSE, FALSE, FALSE, FALSE, <<>>)
HttpError == Response(FALSE, FALSE, TRUE, FALSE, FALSE, <<>>)
MalformedBody == Response(FALSE, TRUE, FALSE, FALSE, FALSE, <<>>)
NoSuccess == Response(FALSE, TRUE, TRUE, FALSE, FALSE, <<>>)
NoStationList == Response(FALSE, TRUE, TRUE, TRUE, FALSE, <<>>)
Delivers(list) == Response(FALSE, TRUE, TRUE, TRUE, TRUE, list)

\* what is known of one answered request: how it ended and how many records came
ResponseKind(r) ==
    [kind  |-> IF r.rejected THEN "network_error"
               ELSE IF ~r.ok THEN "http_error"
               ELSE IF ~r.parses THEN "malformed_body"
               ELSE IF ~r.success THEN "no_success"
               ELSE IF ~r.hasList THEN "no_station_list"
               ELSE "delivered",
     count |-> Len(r.list)]

\* lines 319-334: the query parameters of the requests; a parameter that is
\* not appended is held as 0
RequestParams(latitude, longitude, radius) ==
    IF IsLocationQuery(latitude, longitude, radius)
    THEN [latitude |-> latitude, longitude |-> longitude, radius |-> radius,
          limit |-> S_all]
    ELSE [latitude |-> 0, longitude |-> 0, radius |-> 0,
          limit |-> NumberToString(MAX_INITIAL_LOAD)]

ProxyDefaultRadius == 50

\* part_000 lines 17-35: the parameters the proxy sends on to the third-party
\* API for the query it has received
ProxyForwards(query) ==
    IF query.latitude # 0 /\ query.longitude # 0
    THEN [latitude |-> query.latitude, longitude |-> query.longitude,
          radius |-> IF query.radius # 0 THEN query.radius
                     ELSE ProxyDefaultRadius,
          limit |-> query.limit]
    ELSE [latitude |-> 0, longitude |-> 0, radius |-> 0, limit |-> query.limit]

\* one fetchStations call: its arguments, its locals, and where it is suspended
NoCall ==
    [pc |-> "idle", latitude |-> 0, longitude |-> 0, radius |-> 0,
     key |-> currentCacheKey(0, 0, 0), params |-> RequestParams(0, 0, 0),
     requests |-> <<>>, answered |-> <<>>,
     hasData |-> FALSE, hasFuelStations |-> FALSE, fuel_stations |-> <<>>,
     dataSource |-> "sample", result |-> <<>>, randoms |-> <<>>,
     fromCache |-> FALSE, hadEntry |-> FALSE, entryAge |-> 0,
     entryStations |-> <<>>, error |-> "none",
     \* the handler that made the call, the number of its click, and whether
     \* a call started earlier or later has resolved while this one was awaited
     handler |-> "none", ticket |-> 0, sawEarlier |-> FALSE, sawLater |-> FALSE]

\* localStorage.setItem(key, value) on the storage f
SetItem(f, key, value) ==
    [k \in DOMAIN f \cup {key} |-> IF k = key THEN value ELSE f[k]]

\* localStorage.getItem(key) is a non-empty string
HasItem(key) ==
    key \in DOMAIN localStorage /\ TruthyItem(localStorage[key])

\* what a step of fetchStations leaves: the call, the storage, and the history
\* of what was captured when
Step(call, store, captured) ==
    [call |-> call, localStorage |-> store, capturedAt |-> captured]

\* lines 293-339: the cache check and, on a miss, the request to the proxy.
\* localStorage.getItem is called outside every try block.
fetchStations(latitude, longitude, radius) ==
    LET key == currentCacheKey(latitude, longitude, radius)
        had == key \in DOMAIN capturedAt
        c0  == [NoCall EXCEPT
                  !.latitude = latitude, !.longitude = longitude,
                  !.radius = radius,
                  !.key = key,
                  !.params = RequestParams(latitude, longitude, radius),
                  !.hadEntry = had,
                  !.entryAge = IF had THEN now - capturedAt[key].at ELSE 0,
                  !.entryStations = IF had THEN capturedAt[key].stations ELSE <<>>]
    IN  IF storageState = "unavailable"
        THEN [c0 EXCEPT !.pc = "threw", !.error = "SecurityError"]
        ELSE IF /\ HasItem(key)
                /\ HasItem(cacheTime)
                /\ CacheIsFresh(now - parseInt(localStorage[cacheTime].text))
        THEN [c0 EXCEPT !.pc = "returned", !.fromCache = TRUE,
                        !.result = JSONparse(localStorage[key])]
        ELSE [c0 EXCEPT !.pc = "await_proxy", !.requests = <<"proxy">>]

\* mutant of NeedsDirect: the direct API is asked whatever the proxy delivered
NeedsDirect_Always(c) == TRUE

\* line 359: if (!data)
NeedsDirect(c) == ~c.hasData

\* mutant of NeedsSample: an empty station list is taken as it is
NeedsSample_OnlyWithoutData(c) == ~c.hasData

\* line 377: if (!data || !data.fuel_stations || data.fuel_stations.length === 0)
NeedsSample(c) ==
    ~c.hasData \/ ~c.hasFuelStations \/ Len(c.fuel_stations) = 0

\* the draws of Math.random() in processRawStations: one for each record
\* without an id, none for the others
RandomDraws(rawStations) ==
    LET drawn == {i \in 1..Len(rawStations) : ~TruthyStr(rawStations[i], "id")}
    IN  {[i \in 1..Len(rawStations) |-> IF i \in drawn THEN d[i] ELSE <<>>] :
            d \in [drawn -> RandomIds]}

\* mutant of Returns: a setItem that throws fails the call
Returns_WriteFailureThrows(c, key, processedStations, randoms) ==
    IF storageState = "ok"
    THEN Step([c EXCEPT !.pc = "returned", !.result = processedStations,
                        !.randoms = randoms],
              SetItem(SetItem(localStorage, key,
                              JSONstringify(processedStations)),
                      cacheTime, PlainText(NumberToString(now))),
              SetItem(capturedAt, key,
                      [at |-> now, stations |-> processedStations]))
    ELSE Step([c EXCEPT !.pc = "threw", !.error = "QuotaExceededError"],
              localStorage, capturedAt)

\* lines 395-403: the attempt to cache processedStations, and the return
Returns(c, key, processedStations, randoms) ==
    Step([c EXCEPT !.pc = "returned", !.result = processedStations,
                   !.randoms = randoms],
         IF storageState = "ok"
         THEN SetItem(SetItem(localStorage, key,
                              JSONstringify(processedStations)),
                      cacheTime, PlainText(NumberToString(now)))
         ELSE localStorage,
         IF storageState = "ok"
         THEN SetItem(capturedAt, key,
                      [at |-> now, stations |-> processedStations])
         ELSE capturedAt)

\* lines 391-403: normalize, try to cache, return
Finish(c, randoms) ==
    Returns(c, currentCacheKey(c.latitude, c.longitude, c.radius),
            processRawStations(c.fuel_stations, randoms), randoms)

\* lines 376-389 up to the request for the sample, or straight to line 391
AfterApis(c, randoms) ==
    IF NeedsSample(c)
    THEN Step([c EXCEPT !.pc = "await_sample",
                        !.requests = Append(@, "sample")],
              localStorage, capturedAt)
    ELSE Finish(c, randoms)

\* lines 339-362: the proxy has answered with r
ProxyAnswers(c, r, randoms) ==
    LET got == ~r.rejected /\ r.ok /\ r.parses /\ r.success /\ r.hasList
        c1  == [c EXCEPT
                  !.answered = Append(@, ResponseKind(r)),
                  !.hasData = got,
                  !.hasFuelStations = got,
                  !.fuel_stations = IF got THEN r.list ELSE <<>>,
                  !.dataSource = IF got THEN "vercel_api" ELSE @]
    IN  IF NeedsDirect(c1)
        THEN Step([c1 EXCEPT !.pc = "await_direct",
                             !.requests = Append(@, "direct")],
                  localStorage, capturedAt)
        ELSE AfterApis(c1, randoms)

\* lines 362-374: the direct API has answered with r
DirectAnswers(c, r, randoms) ==
    LET got == ~r.rejected /\ r.ok /\ r.parses
        c1  == [c EXCEPT
                  !.answered = Append(@, ResponseKind(r)),
                  !.hasData = got,
                  !.hasFuelStations = got /\ r.hasList,
                  !.fuel_stations = IF got /\ r.hasList THEN r.list ELSE <<>>,
                  !.dataSource = IF got THEN "nrel_direct" ELSE @]
    IN  AfterApis(c1, randoms)

\* lines 381-389: the sample file has answered with r
SampleAnswers(c, r, randoms) ==
    LET c1 == [c EXCEPT !.answered = Append(@, ResponseKind(r))]
    IN  IF r.rejected \/ ~r.parses
        THEN Step([c1 EXCEPT !.pc = "threw",
                             !.error = "Failed to load any station data."],
                  localStorage, capturedAt)
        ELSE Finish([c1 EXCEPT !.hasData = TRUE, !.hasFuelStations = TRUE,
                               !.fuel_stations = r.list,
                               !.dataSource = "sample_fallback"],
                    randoms)

\* a call that is not suspended
Resting(c) == c.pc \in {"idle", "returned", "threw"}

-----------------------------------------------------------------------------
(* The data source on its own: fetchStations called again and again         *)

MaxCalls == 3
MaxTicks == 2

\* the clock of the model advances by half a cache lifetime
TickMs == CACHE_DURATION \div 2

\* the arguments of the calls: no location, and a location with the radius
Queries ==
    {[latitude |-> 0, longitude |-> 0, radius |-> 0],
     [latitude |-> 10, longitude |-> 10, radius |-> DEFAULT_SEARCH_RADIUS],
     [latitude |-> 10, longitude |-> 10, radius |-> 0]}

\* the station lists the third-party API holds
ServerLists ==
    {<<>>, <<RawAlpha>>, <<RawBeta, RawDelta>>, <<RawAlpha, RawAlpha>>}

\* /data/sample_stations.json
SampleDataset == <<RawGamma, RawBare>>

ProxyResponses ==
    {NetworkError, HttpError, MalformedBody, NoSuccess, NoStationList}
        \cup {Delivers(l) : l \in ServerLists}

DirectResponses ==
    {NetworkError, HttpError, MalformedBody, NoStationList}
        \cup {Delivers(l) : l \in ServerLists}

SampleResponses == {NetworkError, MalformedBody, Delivers(SampleDataset)}

StorageStates == {"ok", "full", "unavailable"}

InitFetch ==
    /\ now = TickMs
    /\ localStorage = <<>>
    /\ storageState \in StorageStates
    /\ capturedAt = <<>>
    /\ proc = [p \in {"caller"} |-> NoCall]
    /\ hist = NoHist
    /\ appState = InitialAppState
    /\ ui = InitialUi
    /\ last = [op |-> "none", before |-> InitialAppState]

\* time passes
Tick ==
    /\ now < TickMs * (MaxTicks + 1)
    /\ now' = now + TickMs
    /\ UNCHANGED <<localStorage, storageState, proc, appState, ui,
                   capturedAt, hist, last>>

\* a step of the call that leaves the result r behind
Leaves(p, r) ==
    /\ proc' = [proc EXCEPT ![p] = r.call]
    /\ localStorage' = r.localStorage
    /\ capturedAt' = r.capturedAt

CallFetchStations ==
    /\ Resting(proc["caller"])
    /\ hist.started < MaxCalls
    /\ \E q \in Queries :
           proc' = [proc EXCEPT !["caller"] =
                        fetchStations(q.latitude, q.longitude, q.radius)]
    /\ hist' = [hist EXCEPT !.started = @ + 1]
    /\ UNCHANGED <<now, localStorage, storageState, appState, ui,
                   capturedAt, last>>

ProxyResponds ==
    /\ proc["caller"].pc = "await_proxy"
    /\ \E r \in ProxyResponses : \E randoms \in RandomDraws(r.list) :
           Leaves("caller", ProxyAnswers(proc["caller"], r, randoms))
    /\ UNCHANGED <<now, storageState, appState, ui, hist, last>>

DirectResponds ==
    /\ proc["caller"].pc = "await_direct"
    /\ \E r \in DirectResponses : \E randoms \in RandomDraws(r.list) :
           Leaves("caller", DirectAnswers(proc["caller"], r, randoms))
    /\ UNCHANGED <<now, storageState, appState, ui, hist, last>>

SampleResponds ==
    /\ proc["caller"].pc = "await_sample"
    /\ \E r \in SampleResponses : \E randoms \in RandomDraws(r.list) :
           Leaves("caller", SampleAnswers(proc["caller"], r, randoms))
    /\ UNCHANGED <<now, storageState, appState, ui, hist, last>>

NextFetch ==
    \/ Tick
    \/ CallFetchStations
    \/ ProxyResponds
    \/ DirectResponds
    \/ SampleResponds

SpecFetch == InitFetch /\ [][NextFetch]_vars

-----------------------------------------------------------------------------
(* Properties of the data source                                            *)

\* the calls of fetchStations, running or finished
Callers == DOMAIN proc

FallbackOrder == <<"proxy", "direct", "sample">>

\* C1: a cached entry is returned only while now minus the time that entry
\* itself was captured is less than CACHE_DURATION, whatever keys the calls
\* before it used.
C1_CachedEntryIsFresh ==
    \A p \in Callers :
        proc[p].fromCache =>
            proc[p].hadEntry /\ proc[p].entryAge < CACHE_DURATION

\* C2: when the result of an earlier call with the same arguments is stored and
\* less than CACHE_DURATION old, the call returns the stored station
\* sequence and asks neither the proxy, the direct API nor the sample.
C2_CacheRoundTrip ==
    \A p \in Callers :
        (proc[p].pc # "idle" /\ proc[p].hadEntry
            /\ proc[p].entryAge < CACHE_DURATION) =>
                /\ proc[p].pc = "returned"
                /\ proc[p].fromCache
                /\ proc[p].requests = <<>>
                /\ proc[p].result = proc[p].entryStations

\* a second call found the fresh result of the first, a list whose stations
\* have fractional coordinates and connectors
C2_Witness ==
    \E p \in Callers :
        /\ proc[p].fromCache
        /\ proc[p].hadEntry
        /\ proc[p].entryAge > 0
        /\ proc[p].entryAge < CACHE_DURATION
        /\ Len(proc[p].result) = 2
        /\ proc[p].result = proc[p].entryStations
        /\ \E i \in 1..Len(proc[p].result) :
               /\ proc[p].result[i].latitude % 10 # 0
               /\ proc[p].result[i].connectors # <<>>

\* the sources are asked in the order proxy, direct API, sample, the first of
\* them being the proxy
AskedInOrder(c) ==
    /\ IsSubsequence(c.requests, FallbackOrder)
    /\ c.requests # <<>> => c.requests[1] = "proxy"

\* a request begins only when every earlier one has been answered
OneAtATime(c) ==
    /\ Len(c.answered) <= Len(c.requests)
    /\ Len(c.requests) <= Len(c.answered) + 1
    /\ (Len(c.requests) = Len(c.answered) + 1) <=>
           c.pc \in {"await_proxy", "await_direct", "await_sample"}

\* C3 (as stated): the sources are asked in order, one at a time, and once a
\* source has succeeded no later source is requested.
C3_StopsAtFirstSuccess ==
    \A p \in Callers :
        /\ AskedInOrder(proc[p])
        /\ OneAtATime(proc[p])
        /\ \A i \in 1..Len(proc[p].answered) :
               proc[p].answered[i].kind = "delivered" =>
                   Len(proc[p].requests) = i

\* C3 (amended): the sources are asked in order, one at a time; once a source
\* has delivered at least one station record no later source is requested, and
\* a source that delivers an empty station list is followed by the sample only.
C3_StopsAtFirstRecords ==
    \A p \in Callers :
        /\ AskedInOrder(proc[p])
        /\ OneAtATime(proc[p])
        /\ \A i \in 1..Len(proc[p].answered) :
               proc[p].answered[i].kind = "delivered" =>
                   IF proc[p].answered[i].count > 0
                   THEN Len(proc[p].requests) = i
                   ELSE /\ Len(proc[p].requests) = i + 1
                        /\ proc[p].requests[i + 1] = "sample"

\* the proxy failed, the direct API delivered stations, and the call returned
\* without asking for the sample
C3_Witness ==
    \E p \in Callers :
        /\ proc[p].pc = "returned"
        /\ proc[p].requests = <<"proxy", "direct">>
        /\ proc[p].answered[1].kind # "delivered"
        /\ proc[p].answered[2].kind = "delivered"
        /\ proc[p].answered[2].count > 0
        /\ Len(proc[p].result) = proc[p].answered[2].count

ProxyFailureKinds ==
    {"network_error", "http_error", "malformed_body", "no_success",
     "no_station_list"}

\* C4: when the proxy fails (non-2xx, network error, malformed body, success
\* false, no station list) the direct API is requested; when the direct API
\* then fails or delivers zero records the sample is requested, and a call
\* that returns after loading the sample returns the normalized sample.
C4_FallsBackToSample ==
    \A p \in Callers :
        LET c == proc[p]
        IN  /\ (Len(c.answered) >= 1 /\ c.answered[1].kind \in ProxyFailureKinds)
                   => (Len(c.requests) >= 2 /\ c.requests[2] = "direct")
            /\ (/\ Len(c.answered) >= 2
                /\ c.requests[2] = "direct"
                /\ (c.answered[2].kind # "delivered" \/ c.answered[2].count = 0))
                   => (Len(c.requests) >= 3 /\ c.requests[3] = "sample")
            /\ (/\ c.pc = "returned"
                /\ c.requests # <<>>
                /\ c.requests[Len(c.requests)] = "sample")
                   => /\ c.result = processRawStations(SampleDataset, c.randoms)
                      /\ c.dataSource = "sample_fallback"

\* the proxy answered 500, the direct API delivered an empty list, and the call
\* returned the normalized sample
C4_Witness ==
    \E p \in Callers :
        /\ proc[p].pc = "returned"
        /\ proc[p].requests = FallbackOrder
        /\ proc[p].answered[1].kind = "http_error"
        /\ proc[p].answered[2].kind = "delivered"
        /\ proc[p].answered[2].count = 0
        /\ proc[p].answered[3].kind = "delivered"
        /\ Len(proc[p].result) = Len(SampleDataset)
        /\ proc[p].result = processRawStations(SampleDataset, proc[p].randoms)

\* C5: fetchStations throws only when the sample, the last step of the chain,
\* has failed to load; in every other case it returns a station sequence.
C5_ThrowsOnlyWhenSampleFails ==
    \A p \in Callers :
        proc[p].pc = "threw" =>
            /\ proc[p].requests = FallbackOrder
               \/ proc[p].requests = <<"proxy", "sample">>
            /\ Len(proc[p].answered) = Len(proc[p].requests)
            /\ proc[p].answered[Len(proc[p].answered)].kind
                   \in {"network_error", "malformed_body"}

\* the sample was asked for and did not load: the one failure that
\* fetchStations passes on
SampleFailed(c) ==
    /\ c.requests # <<>>
    /\ c.requests[Len(c.requests)] = "sample"
    /\ Len(c.answered) = Len(c.requests)
    /\ c.answered[Len(c.answered)].kind \in {"network_error", "malformed_body"}

\* C17: when localStorage.setItem fails while fetchStations stores its result,
\* the call still returns the normalized stations of the source that
\* delivered, and nothing is stored.
C17_CacheWriteFailureReturns ==
    \A p \in Callers :
        LET c == proc[p]
        IN  (/\ storageState # "ok"
             /\ Resting(c)
             /\ c.requests # <<>>
             /\ ~SampleFailed(c)) =>
                /\ c.pc = "returned"
                /\ c.result = processRawStations(c.fuel_stations, c.randoms)
                /\ localStorage = <<>>

\* the storage is full, the proxy has delivered two stations, and the call
\* has returned them normalized without storing anything
C17_Witness ==
    \E p \in Callers :
        /\ storageState = "full"
        /\ proc[p].pc = "returned"
        /\ proc[p].requests = <<"proxy">>
        /\ proc[p].answered[1].kind = "delivered"
        /\ Len(proc[p].result) = 2
        /\ proc[p].result =
               processRawStations(proc[p].fuel_stations, proc[p].randoms)
        /\ localStorage = <<>>

\* C23: in every station sequence returned by one fetchStations call, no two
\* stations have the same id, including stations whose id was synthesized
\* because the source record had none and stations whose source ids are equal.
C23_IdsUnique ==
    \A p \in Callers :
        proc[p].pc = "returned" =>
            \A i, j \in 1..Len(proc[p].result) :
                proc[p].result[i].id = proc[p].result[j].id => i = j

\* C18: a call with a latitude and a longitude but no radius is a location
\* search with radius 50: its requests carry latitude and longitude, the
\* third-party API is asked with radius 50, and the cache key is a location
\* key and not the key of all stations.
C18_RadiusDefaultsTo50 ==
    \A p \in Callers :
        LET c == proc[p]
        IN  (/\ c.pc # "idle"
             /\ c.latitude # 0 /\ c.longitude # 0 /\ c.radius = 0
             /\ c.requests # <<>>) =>
                /\ c.params.latitude = c.latitude
                /\ c.params.longitude = c.longitude
                /\ ProxyForwards(c.params).radius = 50
                /\ c.key # currentCacheKey(0, 0, 0)

-----------------------------------------------------------------------------
(* The application shell: initializeApp and the click handlers              *)

disableButton(u, button, disable) ==
    IF button = "refreshBtn" THEN [u EXCEPT !.refreshBtnDisabled = disable]
    ELSE [u EXCEPT !.locationBtnDisabled = disable]

\* the finally block of a click handler: the button is enabled again and the
\* loading spinner is hidden
Finally(u, button) == showLoadingSpinner(disableButton(u, button, FALSE), FALSE)

\* what a handler leaves of the application state and of the page
Outcome(app, u) == [app |-> app, ui |-> u]

\* the end of the try block and the finally block of a handler, after its
\* applyAllFilters() has left r: the handlers of part_002 set the success status
\* before (find near me) or after (initializeApp, refresh) applyAllFilters,
\* handleLocationClick after; the catch block sets the error status
EndsWith(r, handler, button) ==
    LET u2 == updateApiStatus(r.ui, IF r.threw THEN "error" ELSE "success")
    IN  Outcome(r.app, IF handler = "initializeApp"
                       THEN showLoadingSpinner(u2, FALSE)
                       ELSE Finally(u2, button))

\* the catch block and the finally block of a handler that assigns nothing
Fails(app, u, handler, button) ==
    Outcome(app, IF handler = "initializeApp"
                 THEN showLoadingSpinner(updateApiStatus(u, "error"), FALSE)
                 ELSE Finally(updateApiStatus(u, "error"), button))

\* part_002 lines 226-250, initializeApp from the end of await fetchStations()
initializeAppContinues(app, u, c) ==
    IF c.pc = "threw" THEN Fails(app, u, "initializeApp", "none")
    ELSE EndsWith(applyAllFilters([app EXCEPT !.allStations = c.result,
                                              !.filteredStations = c.result],
                                  u),
                  "initializeApp", "none")

\* part_002 lines 256-281, the refresh handler from the end of
\* await fetchStations(null, null, null)
refreshContinues(app, u, c) ==
    IF c.pc = "threw" THEN Fails(app, u, "refreshBtn", "refreshBtn")
    ELSE EndsWith(applyAllFilters([app EXCEPT !.allStations = c.result,
                                              !.filteredStations = c.result,
                                              !.currentPage = 1],
                                  u),
                  "refreshBtn", "refreshBtn")

\* part_002 lines 310-322: the fetched stations within the radius, nearest first
nearbyStations(fetchedStations, userLocation) ==
    SortByDistance(userLocation,
                   SelectSeq(fetchedStations,
                             LAMBDA s : WithinRadius(userLocation, s)))

\* part_002 lines 324-343: the state update of the find-near-me handler
ShowNearby(app, u, nearby) ==
    EndsWith(applyAllFilters([app EXCEPT !.allStations = nearby,
                                         !.filteredStations = nearby,
                                         !.currentPage = 1],
                             u),
             "locationBtn", "locationBtn")

\* part_002 lines 285-353, the find-near-me handler from the end of
\* await fetchStations(latitude, longitude, radiusMiles).  The map callback
\* reads appState.userLocation.latitude: a TypeError when clearAllFilters has
\* set it to null in the meantime and there is a station to map.
locationContinues(app, u, c) ==
    IF c.pc = "threw" \/ (app.userLocation.isNull /\ c.result # <<>>)
    THEN Fails(app, u, "locationBtn", "locationBtn")
    ELSE ShowNearby(app, u,
                    IF app.userLocation.isNull THEN <<>>
                    ELSE nearbyStations(c.result, app.userLocation))

\* script.js lines 204-262, handleLocationClick from the end of
\* await fetchStations(latitude, longitude, CONFIG.DEFAULT_SEARCH_RADIUS * 2)
handleLocationClickContinues(app, u, c) ==
    IF c.pc = "threw" \/ Len(c.result) = 0
    THEN Fails(app, u, "handleLocationClick", "locationBtn")
    ELSE EndsWith(applyAllFilters([app EXCEPT !.allStations = c.result,
                                              !.filteredStations = c.result],
                                  u),
                  "handleLocationClick", "locationBtn")

\* "script 3.js" lines 96-112, the find-near-me listener from the end of
\* await fetchStations(appState.userLocation): an array is truthy also when it
\* is empty; the finally block leaves the loading spinner alone
locationListenerContinues(app, u, c) ==
    IF c.pc = "threw"
    THEN Outcome(app, disableButton(updateApiStatus(u, "error"),
                                    "locationBtn", FALSE))
    ELSE LET r == applyAllFilters([app EXCEPT !.allStations = c.result], u)
         IN  Outcome(r.app,
                     disableButton(
                         updateApiStatus(r.ui, IF r.threw THEN "error"
                                               ELSE "success"),
                         "locationBtn", FALSE))

\* the catch block of initializeApp in script.js (lines 333-341): the error
\* status, the spinner hidden, and the first page of allStations if there is one
scriptInitializeAppCatches(app, u) ==
    LET u1 == showLoadingSpinner(updateApiStatus(u, "error"), FALSE)
    IN  Outcome(app, IF Len(app.allStations) > 0
                     THEN renderStations(u1, app.allStations, 1)
                     ELSE u1)

\* script.js lines 274-341, initializeApp from the end of await fetchStations();
\* setupEventListeners() of line 317 runs just before isInitialized is set
scriptInitializeAppContinues(app, u, c) ==
    IF c.pc = "threw" \/ Len(c.result) = 0
    THEN scriptInitializeAppCatches(app, u)
    ELSE LET app1 == [app EXCEPT !.allStations = c.result,
                                 !.filteredStations = c.result,
                                 !.totalPages = CeilPages(Len(c.result))]
             r == applyAllFilters(app1, renderStations(u, c.result, 1))
         IN  IF r.threw THEN scriptInitializeAppCatches(r.app, r.ui)
             ELSE Outcome([r.app EXCEPT !.isInitialized = TRUE],
                          updateApiStatus(showLoadingSpinner(r.ui, FALSE),
                                          "success"))

\* mutant of HandlerContinues: a handler drops the stations of its call when a
\* call that was started later has resolved in the meantime
HandlerContinues_DropsOvertaken(app, u, c) ==
    IF c.sawLater THEN Outcome(app, u)
    ELSE CASE c.handler = "initializeApp" -> initializeAppContinues(app, u, c)
           [] c.handler = "refreshBtn" -> refreshContinues(app, u, c)
           [] c.handler = "locationBtn" -> locationContinues(app, u, c)
           [] c.handler = "handleLocationClick" ->
                  handleLocationClickContinues(app, u, c)
           [] c.handler = "locationListener" ->
                  locationListenerContinues(app, u, c)
           [] c.handler = "scriptInitializeApp" ->
                  scriptInitializeAppContinues(app, u, c)

\* the rest of the handler that awaited the call c, once c has returned or thrown
HandlerContinues(app, u, c) ==
    CASE c.handler = "initializeApp" -> initializeAppContinues(app, u, c)
      [] c.handler = "refreshBtn" -> refreshContinues(app, u, c)
      [] c.handler = "locationBtn" -> locationContinues(app, u, c)
      [] c.handler = "handleLocationClick" ->
             handleLocationClickContinues(app, u, c)
      [] c.handler = "locationListener" ->
             locationListenerContinues(app, u, c)
      [] c.handler = "scriptInitializeApp" ->
             scriptInitializeAppContinues(app, u, c)

\* the radius of the find-near-me search: radiusMiles of part_002 line 302,
\* CONFIG.DEFAULT_SEARCH_RADIUS * 2 of script.js line 235
SearchRadius(handler) ==
    IF handler = "locationBtn" THEN DEFAULT_SEARCH_RADIUS
    ELSE IF handler = "handleLocationClick" THEN DEFAULT_SEARCH_RADIUS * 2
    ELSE 0

AwaitsFetch(c) == c.pc \in {"await_proxy", "await_direct", "await_sample"}

\* the call q learns that the call c, started before or after it, has resolved
Notified(q, c) ==
    IF c.ticket < q.ticket THEN [q EXCEPT !.sawEarlier = TRUE]
    ELSE [q EXCEPT !.sawLater = TRUE]

\* the history after the call c has resolved: which of two overlapping calls
\* resolved last, and what the last call to return has delivered
Resolved(h, app, c) ==
    [h EXCEPT
        !.seen = @ \cup (IF c.sawLater THEN {"started first, resolved last"}
                         ELSE {})
                   \cup (IF c.sawEarlier THEN {"started last, resolved last"}
                         ELSE {}),
        !.lastResolved =
            IF c.pc = "returned"
            THEN [handler |-> c.handler, stations |-> c.result,
                  location |-> app.userLocation, overtaken |-> c.sawLater]
            ELSE @]

\* no click is followed
NoLast ==
    [op |-> "none", before |-> InitialAppState, shown |-> <<>>, ended |-> "no",
     requests |-> <<>>]

\* a click on the button of handler: the application state and the station
\* cards on the page at the time of the click; requests will hold the requests
\* that the call of the handler has sent
Clicked(handler) ==
    [op |-> handler, before |-> appState, shown |-> ui.cards, ended |-> "no",
     requests |-> <<>>]

\* the history l after a step of the call c: the handler that is followed has
\* ended with its call returned or thrown; a handler that is not followed has
\* ended and changed the state under the one that is
Observed(l, c) ==
    IF ~Resting(c) THEN l
    ELSE IF l.op = c.handler
    THEN [l EXCEPT !.ended = IF c.pc = "threw" THEN "fetch threw"
                             ELSE "fetch returned",
                   !.requests = c.requests]
    ELSE NoLast

\* the variables after a step of process p that leaves the call c, the storage
\* store and, when c has returned or thrown, the outcome r of its handler
Leaving(p, c, store, captured, r, h) ==
    /\ localStorage' = store
    /\ capturedAt' = captured
    /\ appState' = r.app
    /\ ui' = r.ui
    /\ proc' = [q \in DOMAIN proc |->
                    IF q = p THEN (IF Resting(c) THEN NoCall ELSE c)
                    ELSE IF Resting(c) /\ c.requests # <<>> /\ AwaitsFetch(proc[q])
                    THEN Notified(proc[q], c)
                    ELSE proc[q]]
    /\ hist' = h

\* the step of process p, on the application state app and the page u, ends
\* with the call in the state step.call; a call that has returned or thrown
\* resumes its handler in the same step, and the handler runs to its end
Resumes(p, app, u, step, started, l) ==
    /\ Leaving(p, step.call, step.localStorage, step.capturedAt,
               IF Resting(step.call) THEN HandlerContinues(app, u, step.call)
               ELSE Outcome(app, u),
               IF Resting(step.call)
               THEN Resolved([hist EXCEPT !.started = started], app, step.call)
               ELSE [hist EXCEPT !.started = started])
    /\ last' = Observed(l, step.call)

-----------------------------------------------------------------------------
(* The application under clicks: two buttons, the pager and the filters     *)

MaxClicks == 3
MaxFilterClicks == 1

\* station i of the third-party API, one tenth of a degree north of station i - 1
RawNumbered(i) ==
    [id |-> NumberToString(i),
     state |-> IF i % 2 = 0 THEN <<"C", "A">> ELSE <<"N", "Y">>,
     latitude |-> CoordToJSON(10 + i),
     longitude |-> CoordToJSON(10)]

\* the answer to a query without a location: one station more than a page holds
FullList == [i \in 1..(ITEMS_PER_PAGE + 1) |-> RawNumbered(i)]

\* the answer to a query around the position of the user
NearbyList == <<RawNumbered(9), RawNumbered(3), RawNumbered(1)>>

BackendList(c) ==
    IF IsLocationQuery(c.latitude, c.longitude, c.radius) THEN NearbyList
    ELSE FullList

AppProxyResponses(c) == {HttpError, Delivers(BackendList(c))}

\* the browser cannot reach the third-party API itself
AppDirectResponses(c) == {NetworkError}

AppSampleResponses == {MalformedBody, Delivers(SampleDataset)}

\* what navigator.geolocation.getCurrentPosition reports
GeoOutcomes ==
    {[ok |-> TRUE, latitude |-> 10, longitude |-> 10],
     [ok |-> FALSE, latitude |-> 0, longitude |-> 0]}

\* the filter tags and search texts the user picks
FilterClicks == {<<"state", <<"C", "A">>>>, <<"search", <<"z", "z">>>>}

\* fetchStations called by a handler
CallBy(handler, ticket, latitude, longitude, radius) ==
    Step([fetchStations(latitude, longitude, radius) EXCEPT
             !.handler = handler, !.ticket = ticket],
         localStorage, capturedAt)

\* DOMContentLoaded has run: initializeApp awaits its fetchStations() and the
\* listeners are installed
InitApp ==
    /\ now = TickMs
    /\ localStorage = <<>>
    /\ storageState = "ok"
    /\ capturedAt = <<>>
    /\ proc = [p \in {"initializeApp", "refreshBtn", "locationBtn"} |->
                  IF p = "initializeApp"
                  THEN CallBy("initializeApp", 1, 0, 0, 0).call
                  ELSE NoCall]
    /\ hist = [NoHist EXCEPT !.started = 1]
    /\ appState = InitialAppState
    /\ ui = showLoadingSpinner(updateApiStatus(InitialUi, "loading"), TRUE)
    /\ last = NoLast

\* handlers waiting for the position have not called fetchStations yet
Locating == Cardinality({p \in DOMAIN proc : proc[p].pc = "await_geo"})

\* part_002 lines 256-262: a click on the refresh button
ClickRefresh ==
    /\ ~ui.refreshBtnDisabled
    /\ hist.started + Locating < MaxClicks
    /\ Resumes("refreshBtn", appState,
               showLoadingSpinner(
                   updateApiStatus(disableButton(ui, "refreshBtn", TRUE),
                                   "loading"), TRUE),
               CallBy("refreshBtn", hist.started + 1, 0, 0, 0),
               hist.started + 1, Clicked("refreshBtn"))
    /\ UNCHANGED <<now, storageState>>

\* the find-near-me handlers: the listener of part_002 (lines 285-353),
\* handleLocationClick of script.js (lines 204-262), the listener of
\* "script 3.js" (lines 72-113)
InstalledLocationHandlers == {"locationBtn", "handleLocationClick"}

LocationHandlers == InstalledLocationHandlers \cup {"locationListener"}

\* the handlers that pass timeout: 10000 to getCurrentPosition (utils.js lines
\* 132-136, script.js lines 217-221); "script 3.js" line 84 passes no options
TimedHandlers == {"locationBtn", "handleLocationClick"}

\* a click on the find-near-me button, up to the await of the position
ClickLocationBy(handler) ==
    /\ ~ui.locationBtnDisabled
    /\ hist.started + Locating < MaxClicks
    /\ proc' = [proc EXCEPT !["locationBtn"] =
                   [NoCall EXCEPT !.pc = "await_geo", !.handler = handler]]
    /\ ui' = IF handler = "locationBtn"
             THEN showLoadingSpinner(
                      updateApiStatus(disableButton(ui, "locationBtn", TRUE),
                                      "loading"), TRUE)
             ELSE disableButton(ui, "locationBtn", TRUE)
    /\ last' = Clicked(handler)
    /\ UNCHANGED <<now, localStorage, storageState, appState, capturedAt, hist>>

ClickLocation == \E handler \in InstalledLocationHandlers : ClickLocationBy(handler)

\* the arguments of fetchStations after the position g: "script 3.js" line 96
\* passes the position object as latitude and nothing else
SearchLongitude(handler, g) ==
    IF handler = "locationListener" THEN 0 ELSE g.longitude

\* the error callback of getCurrentPosition has run: the catch block and the
\* finally block of the handler
GeoFailure ==
    LET handler == proc["locationBtn"].handler
    IN  /\ proc' = [proc EXCEPT !["locationBtn"] = NoCall]
        /\ ui' = IF handler = "locationListener"
                 THEN disableButton(updateApiStatus(ui, "error"),
                                    "locationBtn", FALSE)
                 ELSE Finally(updateApiStatus(ui, "error"), "locationBtn")
        /\ last' = IF last.op = handler
                   THEN [last EXCEPT !.ended = "geolocation failed"]
                   ELSE last
        /\ UNCHANGED <<now, localStorage, storageState, capturedAt, appState,
                       hist>>

\* the position arrives, or the permission is denied
GeoResponds ==
    /\ proc["locationBtn"].pc = "await_geo"
    /\ \E g \in GeoOutcomes :
         LET handler == proc["locationBtn"].handler
         IN  IF g.ok
             THEN /\ Resumes("locationBtn",
                      [appState EXCEPT
                          !.userLocation = Location(g.latitude, g.longitude)],
                      showLoadingSpinner(updateApiStatus(ui, "loading"), TRUE),
                      CallBy(handler, hist.started + 1, g.latitude,
                             SearchLongitude(handler, g), SearchRadius(handler)),
                      hist.started + 1,
                      IF last.op = handler THEN last ELSE NoLast)
                  /\ UNCHANGED <<now, storageState>>
             ELSE GeoFailure

\* ten seconds have passed without a position: the browser calls the error
\* callback of a handler that has asked for the timeout
GeoTimesOut ==
    /\ proc["locationBtn"].pc = "await_geo"
    /\ proc["locationBtn"].handler \in TimedHandlers
    /\ GeoFailure

AppProxyResponds ==
    /\ \E p \in DOMAIN proc :
         /\ proc[p].pc = "await_proxy"
         /\ \E r \in AppProxyResponses(proc[p]) :
              \E randoms \in RandomDraws(r.list) :
                 Resumes(p, appState, ui, ProxyAnswers(proc[p], r, randoms),
                         hist.started, last)
    /\ UNCHANGED <<now, storageState>>

AppDirectResponds ==
    /\ \E p \in DOMAIN proc :
         /\ proc[p].pc = "await_direct"
         /\ \E r \in AppDirectResponses(proc[p]) :
              \E randoms \in RandomDraws(r.list) :
                 Resumes(p, appState, ui, DirectAnswers(proc[p], r, randoms),
                         hist.started, last)
    /\ UNCHANGED <<now, storageState>>

AppSampleResponds ==
    /\ \E p \in DOMAIN proc :
         /\ proc[p].pc = "await_sample"
         /\ \E r \in AppSampleResponses :
              \E randoms \in RandomDraws(r.list) :
                 Resumes(p, appState, ui, SampleAnswers(proc[p], r, randoms),
                         hist.started, last)
    /\ UNCHANGED <<now, storageState>>

\* script.js lines 166-176: a click on the next-page button
NextPage ==
    /\ appState.currentPage < appState.totalPages
    /\ appState' = [appState EXCEPT !.currentPage = @ + 1]
    /\ ui' = renderStations(ui, appState.filteredStations,
                            appState.currentPage + 1)
    /\ last' = NoLast
    /\ UNCHANGED <<now, localStorage, storageState, proc, capturedAt, hist>>

\* script.js lines 156-164: a click on the previous-page button
PrevPage ==
    /\ appState.currentPage > 1
    /\ appState' = [appState EXCEPT !.currentPage = @ - 1]
    /\ ui' = renderStations(ui, appState.filteredStations,
                            appState.currentPage - 1)
    /\ last' = NoLast
    /\ UNCHANGED <<now, localStorage, storageState, proc, capturedAt, hist>>

\* script.js lines 137-145 and 178-201: a filter tag is clicked or the search
\* text changes; the listener calls applyFilter
ClickFilter ==
    /\ hist.clicks < MaxFilterClicks
    /\ hist' = [hist EXCEPT !.clicks = @ + 1]
    /\ \E f \in FilterClicks :
         LET r == applyFilter(appState, ui, f[1], f[2])
         IN  appState' = r.app /\ ui' = r.ui
    /\ last' = NoLast
    /\ UNCHANGED <<now, localStorage, storageState, proc, capturedAt>>

\* script.js lines 150-154: the clear-filters button
ClickClearFilters ==
    /\ hist.clicks < MaxFilterClicks
    /\ hist' = [hist EXCEPT !.clicks = @ + 1]
    /\ LET r == clearAllFilters(appState, ui)
       IN  appState' = r.app /\ ui' = r.ui
    /\ last' = NoLast
    /\ UNCHANGED <<now, localStorage, storageState, proc, capturedAt>>

NextApp ==
    \/ ClickRefresh
    \/ ClickLocation
    \/ GeoResponds
    \/ GeoTimesOut
    \/ AppProxyResponds
    \/ AppDirectResponds
    \/ AppSampleResponds
    \/ NextPage
    \/ PrevPage
    \/ ClickFilter
    \/ ClickClearFilters

SpecApp == InitApp /\ [][NextApp]_vars

-----------------------------------------------------------------------------
(* The find-near-me button on its own, after an initial load that failed    *)

InitLocate ==
    /\ now = TickMs
    /\ localStorage = <<>>
    /\ storageState = "ok"
    /\ capturedAt = <<>>
    /\ proc = [p \in {"initializeApp", "refreshBtn", "locationBtn"} |-> NoCall]
    /\ hist = [NoHist EXCEPT !.started = 1]
    /\ appState = InitialAppState
    /\ ui = Fails(InitialAppState,
                  showLoadingSpinner(updateApiStatus(InitialUi, "loading"), TRUE),
                  "initializeApp", "none").ui
    /\ last = NoLast

\* a click on the find-near-me button, whichever of the three handlers the
\* page has installed
ClickFindNearMe == \E handler \in LocationHandlers : ClickLocationBy(handler)

NextLocate ==
    \/ ClickFindNearMe
    \/ GeoResponds
    \/ GeoTimesOut
    \/ AppProxyResponds
    \/ AppDirectResponds
    \/ AppSampleResponds

SpecLocate == InitLocate /\ [][NextLocate]_vars

\* the browser runs its timer, and every request is answered or fails; the
\* geolocation capability itself may stay silent for ever
LiveLocate ==
    /\ SpecLocate
    /\ WF_vars(GeoTimesOut)
    /\ WF_vars(AppProxyResponds)
    /\ WF_vars(AppDirectResponds)
    /\ WF_vars(AppSampleResponds)

-----------------------------------------------------------------------------
(* The initial load on its own, over every answer of the sources: the       *)
(* initializeApp of part_002 and the initializeApp of script.js             *)

InitializeAppVariants == {"initializeApp", "scriptInitializeApp"}

InitLoad ==
    /\ now = TickMs
    /\ localStorage = <<>>
    /\ storageState \in StorageStates
    /\ capturedAt = <<>>
    /\ proc = [p \in {"initializeApp"} |-> NoCall]
    /\ hist = NoHist
    /\ appState = InitialAppState
    /\ ui = InitialUi
    /\ last = NoLast

\* DOMContentLoaded: initializeApp runs up to await fetchStations() (part_002
\* lines 226-231, script.js lines 264-274)
DOMContentLoaded ==
    /\ hist.started = 0
    /\ \E handler \in InitializeAppVariants :
           Resumes("initializeApp", appState,
                   showLoadingSpinner(updateApiStatus(ui, "loading"), TRUE),
                   CallBy(handler, 1, 0, 0, 0), 1, last)
    /\ UNCHANGED <<now, storageState>>

LoadProxyResponds ==
    /\ proc["initializeApp"].pc = "await_proxy"
    /\ \E r \in ProxyResponses : \E randoms \in RandomDraws(r.list) :
           Resumes("initializeApp", appState, ui,
                   ProxyAnswers(proc["initializeApp"], r, randoms),
                   hist.started, last)
    /\ UNCHANGED <<now, storageState>>

LoadDirectResponds ==
    /\ proc["initializeApp"].pc = "await_direct"
    /\ \E r \in DirectResponses : \E randoms \in RandomDraws(r.list) :
           Resumes("initializeApp", appState, ui,
                   DirectAnswers(proc["initializeApp"], r, randoms),
                   hist.started, last)
    /\ UNCHANGED <<now, storageState>>

LoadSampleResponds ==
    /\ proc["initializeApp"].pc = "await_sample"
    /\ \E r \in SampleResponses : \E randoms \in RandomDraws(r.list) :
           Resumes("initializeApp", appState, ui,
                   SampleAnswers(proc["initializeApp"], r, randoms),
                   hist.started, last)
    /\ UNCHANGED <<now, storageState>>

NextLoad ==
    \/ DOMContentLoaded
    \/ LoadProxyResponds
    \/ LoadDirectResponds
    \/ LoadSampleResponds

SpecLoad == InitLoad /\ [][NextLoad]_vars

-----------------------------------------------------------------------------
(* Properties of the application shell                                      *)

NoHandlerInFlight == \A p \in DOMAIN proc : proc[p].pc = "idle"

\* C6: of two fetchStations calls in flight at the same time, whichever
\* returns last leaves its stations in appState.allStations, also when it was
\* started first: initializeApp and refresh leave what the call returned, find
\* near me the stations of the call within the radius, nearest first.
C6_LastResolvedWins ==
    LET w == hist.lastResolved
    IN  /\ w.handler \in {"initializeApp", "refreshBtn"} =>
               appState.allStations = w.stations
        /\ (w.handler = "locationBtn" /\ ~w.location.isNull) =>
               appState.allStations = nearbyStations(w.stations, w.location)

\* refresh was started before another call, returned after it, and its
\* stations are the ones in appState; both orders of two overlapping calls
\* have occurred, and both calls have written their cache entries
C6_Witness ==
    /\ hist.lastResolved.handler = "refreshBtn"
    /\ hist.lastResolved.overtaken
    /\ hist.seen = {"started first, resolved last", "started last, resolved last"}
    /\ appState.allStations = hist.lastResolved.stations
    /\ appState.allStations # <<>>
    /\ currentCacheKey(0, 0, 0) \in DOMAIN localStorage
    /\ currentCacheKey(10, 10, DEFAULT_SEARCH_RADIUS) \in DOMAIN localStorage
    /\ NoHandlerInFlight

\* C7: whenever a handler has finished, appState.currentPage lies in
\* [1, totalPages], and is 1 when the filtered set is empty.
C7_CurrentPageInRange ==
    NoHandlerInFlight =>
        IF Len(appState.filteredStations) = 0
        THEN appState.currentPage = 1
        ELSE /\ 1 <= appState.currentPage
             /\ appState.currentPage <= CeilPages(Len(appState.filteredStations))

\* the fields of appState that the handlers share
SameState(a, b) ==
    /\ a.allStations = b.allStations
    /\ a.filteredStations = b.filteredStations
    /\ a.currentFilters = b.currentFilters
    /\ a.currentPage = b.currentPage
    /\ a.userLocation = b.userLocation

\* C12: when fetchStations throws during refresh or find near me, the handler
\* ends with the error status and allStations, filteredStations,
\* currentFilters, currentPage and userLocation are what they were when the
\* button was clicked.
C12_FailedFetchKeepsState ==
    (last.op \in {"refreshBtn"} \cup InstalledLocationHandlers
        /\ last.ended = "fetch threw") =>
        /\ ui.apiStatus = "error"
        /\ SameState(appState, last.before)

\* C13: when the geolocation fails, the find-near-me handler ends with the
\* error status, allStations and filteredStations are unchanged, and the
\* station cards that were on the page at the click are still there.
C13_GeolocationFailureKeepsPage ==
    (last.op \in InstalledLocationHandlers
        /\ last.ended = "geolocation failed") =>
        /\ ui.apiStatus = "error"
        /\ ~ui.locationBtnDisabled
        /\ appState.allStations = last.before.allStations
        /\ appState.filteredStations = last.before.filteredStations
        /\ ui.cards = last.shown

\* C19: every find-near-me click ends: the handler comes to its end with the
\* success or the error status and the location button enabled again.
C19_FindNearMeEnds ==
    (proc["locationBtn"].pc # "idle") ~>
        (/\ proc["locationBtn"].pc = "idle"
         /\ ~ui.locationBtnDisabled
         /\ ui.apiStatus \in {"success", "error"})

\* C27: clicking the refresh button forces a re-fetch: every refresh executes
\* the network fallback chain and replaces allStations with its result, also
\* when a non-expired cache entry for the 'all stations' key exists.
C27_RefreshRefetches ==
    (last.op = "refreshBtn" /\ last.ended = "fetch returned") =>
        /\ last.requests # <<>>
        /\ last.requests[1] = "proxy"
        /\ appState.allStations = hist.lastResolved.stations

\* C28: when fetchStations resolves with at least one station, initializeApp
\* completes in the success state: applyAllFilters raises no error for a
\* non-empty filtered result, the event listeners are installed,
\* appState.isInitialized becomes true and the final status is 'success', not
\* 'error'.
C28_InitializeAppSucceeds ==
    (/\ hist.lastResolved.handler = "scriptInitializeApp"
     /\ Len(hist.lastResolved.stations) > 0) =>
        /\ ~applyAllFilters(appState, ui).threw
        /\ appState.isInitialized
        /\ ui.apiStatus = "success"

\* no handler is waiting for a position or for stations
NothingInFlight == \A p \in DOMAIN proc : proc[p].pc = "idle"

\* C29: whenever no load is in progress and filteredStations is non-empty
\* (after initializeApp, refresh or find-near-me has finished, successfully or
\* not), the stations grid shows the items of the current page of
\* filteredStations; hiding the loading spinner at the end of an operation
\* does not remove the rendered station cards.
C29_GridShowsCurrentPage ==
    (NothingInFlight /\ Len(appState.filteredStations) > 0) =>
        /\ ui.cards # <<>>
        /\ ui.cards = StationIds(PageSlice(appState.filteredStations,
                                           appState.currentPage))

\* C30: whenever a handler has finished, appState.totalPages equals
\* ceil(length of appState.filteredStations / ITEMS_PER_PAGE) and
\* appState.filteredStations equals the result of applying the current filters
\* and userLocation to the current appState.allStations; no action (initial
\* load, find near me, apply filter, clear filters) changes allStations or a
\* filter without recomputing both.
C30_DerivedStateInStep ==
    (NothingInFlight /\ hist.lastResolved.handler # "none") =>
        /\ appState.totalPages = CeilPages(Len(appState.filteredStations))
        /\ appState.filteredStations =
               FilterStations(appState.allStations, appState.currentFilters,
                              appState.userLocation)

-----------------------------------------------------------------------------
(* The pagers: renderStations of both ui.js variants, and getPageSlice and  *)
(* render of the self-contained page script (part_002 lines 1-192)          *)

PAGE_SIZE == 12

Min(a, b) == IF a < b THEN a ELSE b
Max(a, b) == IF a > b THEN a ELSE b

\* Math.ceil(total / size)
Ceil(total, size) == (total + size - 1) \div size

\* getPageSlice() on state.filtered and state.page: the page the state is left
\* on, and the slice, total and totalPages it returns
getPageSlice(filtered, page) ==
    LET total      == Len(filtered)
        totalPages == Max(1, Ceil(total, PAGE_SIZE))
        clamped    == Min(Max(1, page), totalPages)
        start      == (clamped - 1) * PAGE_SIZE
        end        == start + PAGE_SIZE
    IN  [page |-> clamped, total |-> total, totalPages |-> totalPages,
         slice |-> SubSeq(filtered, start + 1, Min(end, total))]

\* render(): EVUI.renderStations(slice) and setPageInfo
render(app, u) ==
    LET r == getPageSlice(app.filteredStations, app.currentPage)
    IN  [app |-> [app EXCEPT !.currentPage = r.page,
                            !.totalPages = r.totalPages],
         ui  |-> [u EXCEPT !.loading = FALSE,
                           !.cards = StationIds(r.slice),
                           !.noResults = (r.total = 0),
                           !.pageInfo = <<r.page, r.totalPages>>]]

\* renderStations of the second ui.js (utils.js lines 216-256)
renderStationsUtils(u, stations, page) ==
    IF Len(stations) = 0
    THEN [u EXCEPT !.loading = FALSE, !.cards = <<>>, !.noResults = TRUE]
    ELSE [u EXCEPT !.loading = FALSE,
                   !.cards = StationIds(PageSlice(stations, page)),
                   !.noResults = FALSE,
                   !.pagination = TRUE]

MaxItems == 25
MaxRequestedPage == 4

\* n stations as fetchStations returns them
NumberedStations(n) ==
    processRawStations([i \in 1..n |-> RawNumbered(i)], [i \in 1..n |-> <<>>])

\* a filtered sequence with a requested page: the page listeners of part_002
\* lines 171-179 take state.page below 1 and beyond the last page, those of
\* script.js keep currentPage at 1 or more
PagerInputs ==
    {[InitialAppState EXCEPT
          !.allStations = NumberedStations(n),
          !.filteredStations = NumberedStations(n),
          !.currentPage = k,
          !.totalPages = Ceil(n, ITEMS_PER_PAGE)] :
       n \in 0..MaxItems, k \in 0..MaxRequestedPage}

InitPager ==
    /\ QuietEnvironment
    /\ appState \in PagerInputs
    /\ last = [op |-> "none", before |-> appState]

\* renderStations(appState.filteredStations, appState.currentPage, ...) of
\* part_001
RunRenderStations ==
    /\ last.op = "none"
    /\ appState.currentPage >= 1
    /\ ui' = renderStations(ui, appState.filteredStations, appState.currentPage)
    /\ last' = [op |-> "renderStations", before |-> appState]
    /\ UNCHANGED <<now, localStorage, storageState, proc, appState, capturedAt,
                   hist>>

\* the same call with renderStations of utils.js
RunRenderStationsUtils ==
    /\ last.op = "none"
    /\ appState.currentPage >= 1
    /\ ui' = renderStationsUtils(ui, appState.filteredStations,
                                 appState.currentPage)
    /\ last' = [op |-> "renderStationsUtils", before |-> appState]
    /\ UNCHANGED <<now, localStorage, storageState, proc, appState, capturedAt,
                   hist>>

\* render() of part_002, with state.filtered and state.page held in appState
RunRender ==
    /\ last.op = "none"
    /\ LET r == render(appState, ui)
       IN  appState' = r.app /\ ui' = r.ui
    /\ last' = [op |-> "render", before |-> appState]
    /\ UNCHANGED <<now, localStorage, storageState, proc, capturedAt, hist>>

\* applyAllFilters() with no filter set
RunApplyAllFiltersOnPage ==
    /\ appState.currentPage >= 1
    /\ RunApplyAllFilters

NextPager ==
    \/ RunRenderStations
    \/ RunRenderStationsUtils
    \/ RunRender
    \/ RunApplyAllFiltersOnPage

SpecPager == InitPager /\ [][NextPager]_vars

-----------------------------------------------------------------------------
(* Properties of the pagers                                                 *)

PagerOps == {"renderStations", "renderStationsUtils", "render"}

PageSizeOf(op) == IF op = "render" THEN PAGE_SIZE ELSE ITEMS_PER_PAGE

\* totalPages = max(1, ceil(length / pageSize))
TotalPagesOf(length, pageSize) == Max(1, Ceil(length, pageSize))

\* the elements at positions (k-1)*pageSize up to k*pageSize of seq
PageOf(seq, k, pageSize) ==
    SubSeq(seq, (k - 1) * pageSize + 1, Min(k * pageSize, Len(seq)))

\* the items the pager op computes for page k of seq
ItemsOf(op, seq, k) ==
    IF op = "render" THEN getPageSlice(seq, k).slice ELSE PageSlice(seq, k)

\* the items of pages 1..k, one page after the other
RECURSIVE PagesUpTo(_, _, _)
PagesUpTo(op, seq, k) ==
    IF k = 0 THEN <<>> ELSE PagesUpTo(op, seq, k - 1) \o ItemsOf(op, seq, k)

\* C14: a page beyond the last page of a non-empty filtered sequence shows
\* the last valid page, and the page shown is empty only when the filtered
\* sequence is empty.
C14_BeyondLastShowsLastPage ==
    LET seq == last.before.filteredStations
        ps  == PageSizeOf(last.op)
        T   == TotalPagesOf(Len(seq), ps)
    IN  last.op \in PagerOps =>
            /\ (Len(seq) > 0 /\ last.before.currentPage > T) =>
                   ui.cards = StationIds(PageOf(seq, T, ps))
            /\ (ui.cards = <<>>) <=> (Len(seq) = 0)

\* C15: the totalPages computed for a filtered sequence is
\* max(1, ceil(length / pageSize)): at least 1, and 1 for the empty sequence.
C15_TotalPagesAtLeastOne ==
    last.op \in {"applyAllFilters", "render"} =>
        appState.totalPages =
            TotalPagesOf(Len(appState.filteredStations), PageSizeOf(last.op))

\* the page k that was asked for is shown with the elements at positions
\* (k-1)*pageSize up to k*pageSize; pages 1..totalPages one after the other
\* are the filtered sequence; every page but the last is full
PagesPartition(op, seq, k) ==
    LET ps == PageSizeOf(op)
        T  == TotalPagesOf(Len(seq), ps)
    IN  /\ (1 <= k /\ k <= T) => ui.cards = StationIds(PageOf(seq, k, ps))
        /\ \A j \in 1..T : ItemsOf(op, seq, j) = PageOf(seq, j, ps)
        /\ PagesUpTo(op, seq, T) = seq
        /\ \A j \in 1..(T - 1) : Len(ItemsOf(op, seq, j)) = ps

\* C16 as stated: for every filtered sequence the pages partition it, and the
\* last page has between 1 and pageSize items.
C16_PagesPartitionLastNonEmpty ==
    LET seq == last.before.filteredStations
        ps  == PageSizeOf(last.op)
        T   == TotalPagesOf(Len(seq), ps)
    IN  last.op \in PagerOps =>
            /\ PagesPartition(last.op, seq, last.before.currentPage)
            /\ 1 <= Len(ItemsOf(last.op, seq, T))
            /\ Len(ItemsOf(last.op, seq, T)) <= ps

\* C16 amended: the pages partition the filtered sequence; the last page has
\* between 1 and pageSize items when the sequence is not empty, and the one
\* page of the empty sequence is empty (25 stations at page size 20 give pages
\* of 20 and 5).
C16_PagesPartition ==
    LET seq == last.before.filteredStations
        ps  == PageSizeOf(last.op)
        T   == TotalPagesOf(Len(seq), ps)
    IN  last.op \in PagerOps =>
            /\ PagesPartition(last.op, seq, last.before.currentPage)
            /\ Len(seq) > 0 => /\ 1 <= Len(ItemsOf(last.op, seq, T))
                               /\ Len(ItemsOf(last.op, seq, T)) <= ps
            /\ Len(seq) = 0 => T = 1 /\ ItemsOf(last.op, seq, T) = <<>>
            /\ Len(seq) = 25 =>
                   /\ TotalPagesOf(Len(seq), ITEMS_PER_PAGE) = 2
                   /\ Len(PageSlice(seq, 1)) = 20
                   /\ Len(PageSlice(seq, 2)) = 5

\* renderStations has shown page 2 of 25 stations: 5 cards, stations 21 to 25
C16_Witness ==
    /\ last.op = "renderStations"
    /\ Len(last.before.filteredStations) = 25
    /\ last.before.currentPage = 2
    /\ Len(ui.cards) = 5
    /\ ui.cards[1] = NumberToString(21)
    /\ ui.pageInfo = <<2, 2>>

-----------------------------------------------------------------------------
(* The normalizer on its own: processRawStations over bounded raw lists     *)

MaxRawStations == 2

\* a record whose string fields are all present and empty
RawEmptyFields ==
    [id |-> <<>>, station_name |-> <<>>, street_address |-> <<>>,
     city |-> <<>>, state |-> <<>>, zip |-> <<>>, latitude |-> <<>>,
     longitude |-> <<>>, ev_network |-> <<>>, ev_connector_types |-> <<>>,
     ev_level2_evse_num |-> 0, access_code |-> <<>>,
     access_days_time |-> <<>>, station_phone |-> <<>>,
     ev_network_web |-> <<>>]

\* station_name: 42
RawNumericName ==
    [id |-> <<"5">>, state |-> <<"N", "Y">>, unexpected |-> {"station_name"}]

\* ev_network: 7
RawNumericNetwork ==
    [id |-> <<"6">>, station_name |-> <<"Z", "e", "t", "a">>,
     unexpected |-> {"ev_network"}]

\* ev_connector_types: "J1772"
RawTextConnectorTypes ==
    [id |-> <<"7">>, station_name |-> <<"E", "t", "a">>,
     ev_level2_evse_num |-> 2, unexpected |-> {"ev_connector_types"}]

MalformedPool ==
    {RawEmptyFields, RawNumericName, RawNumericNetwork, RawTextConnectorTypes}

\* no count field, every connector type named, most of them twice
RawRepeatedTypes ==
    [id |-> <<"8">>, station_name |-> <<"T", "h", "e", "t", "a">>,
     ev_connector_types |-> <<S_J1772, S_CCS, S_J1772, S_J1772COMBO, S_TESLA,
                              S_CHADEMO, S_TESLA, S_CHADEMO, S_CCS>>]

NormalizeInputs ==
    SeqsUpTo(RawPool \cup MalformedPool \cup {RawRepeatedTypes}, MaxRawStations)

InitNormalize ==
    /\ QuietEnvironment
    /\ appState = InitialAppState
    /\ \E rawStations \in NormalizeInputs :
           last = [op |-> "none", rawStations |-> rawStations,
                   threw |-> "none", result |-> <<>>]

\* processRawStations(rawStations) runs and returns
RunProcessRawStations ==
    /\ last.op = "none"
    /\ ~processRawStationsThrows(last.rawStations)
    /\ \E randoms \in RandomDraws(last.rawStations) :
           last' = [last EXCEPT !.op = "processRawStations",
                                !.result = processRawStations(last.rawStations, randoms)]
    /\ UNCHANGED <<now, localStorage, storageState, proc, appState, ui,
                   capturedAt, hist>>

\* processRawStations(rawStations) runs and throws
RunProcessRawStationsThrows ==
    /\ last.op = "none"
    /\ processRawStationsThrows(last.rawStations)
    /\ last' = [last EXCEPT !.op = "processRawStations", !.threw = "TypeError"]
    /\ UNCHANGED <<now, localStorage, storageState, proc, appState, ui,
                   capturedAt, hist>>

NextNormalize == RunProcessRawStations \/ RunProcessRawStationsThrows

SpecNormalize == InitNormalize /\ [][NextNormalize]_vars

-----------------------------------------------------------------------------
(* Properties of the normalizer                                             *)

\* the field of the result is the raw field when that is a non-empty string,
\* and the fallback otherwise
FieldOrFallback(station, key, value, fallback) ==
    IF TruthyStr(station, key) THEN value = station[key] ELSE value = fallback

\* C20: processRawStations raises no error for any raw record whose fields are
\* missing or malformed (absent, null, empty, or of an unexpected type such as
\* a non-string name or a non-list connector-type field); every field of the
\* result takes its documented fallback instead.
C20_NormalizeNeverThrows ==
    last.op = "processRawStations" =>
        /\ last.threw = "none"
        /\ Len(last.result) = Len(last.rawStations)
        /\ \A i \in 1..Len(last.result) :
              LET station == last.rawStations[i]
                  r == last.result[i]
              IN  /\ ~TruthyStr(station, "id") =>
                         \E random \in RandomIds : r.id = S_unknownDash \o random
                  /\ ~TruthyStr(station, "station_name") => r.name = S_UnnamedStation
                  /\ ~TruthyStr(station, "ev_network") => r.network = S_UnknownNetwork
                  /\ FieldOrFallback(station, "street_address", r.address, S_AddressNotAvailable)
                  /\ FieldOrFallback(station, "city", r.city, S_UnknownCity)
                  /\ FieldOrFallback(station, "state", r.state, S_UnknownState)
                  /\ FieldOrFallback(station, "zip", r.zip, <<>>)
                  /\ FieldOrFallback(station, "access_code", r.access, S_unknown)
                  /\ FieldOrFallback(station, "access_days_time", r.hours, S_247)
                  /\ FieldOrFallback(station, "station_phone", r.phone, S_NA)
                  /\ FieldOrFallback(station, "ev_network_web", r.website, <<>>)
                  /\ Len(r.connectors) > 0

\* the run of processRawStations has returned
Normalized == last.op = "processRawStations" /\ last.threw = "none"

\* C21: for every raw station record, the connectors list produced by
\* parseConnectors is non-empty and every entry has a ports value that is an
\* integer of at least 1.
C21_ConnectorsNonEmptyPortsPositive ==
    Normalized =>
        \A i \in 1..Len(last.result) :
            LET connectors == last.result[i].connectors
            IN  /\ connectors = parseConnectors(last.rawStations[i])
                /\ Len(connectors) > 0
                /\ \A j \in 1..Len(connectors) :
                       connectors[j].ports \in Nat /\ connectors[j].ports >= 1

\* a record without any information on its connectors, and one with connector
\* types and no count, have been normalized in one run
C21_Witness ==
    /\ Normalized
    /\ last.rawStations = <<RawBare, RawRepeatedTypes>>
    /\ last.result[1].connectors = <<[type |-> S_Unknown, ports |-> 1]>>
    /\ Len(last.result[2].connectors) = 4
    /\ last.result[2].connectors[1] = [type |-> S_Level2J1772, ports |-> 1]

\* the fields of a raw record that processRawStations reads, the id apart
OptionalFields ==
    {"station_name", "street_address", "city", "state", "zip", "latitude",
     "longitude", "ev_network", "ev_level1_evse_num", "ev_level2_evse_num",
     "ev_dc_fast_num", "ev_connector_types", "access_code",
     "access_days_time", "station_phone", "ev_network_web"}

\* C22: a raw station record in which every optional field is missing
\* normalizes to a station with all documented fallback values: name 'Unnamed
\* Station', address 'Address not available', city 'Unknown City', state
\* 'Unknown State', latitude 0, longitude 0, network 'Unknown Network', access
\* 'unknown', hours '24/7', phone 'N/A', website '', and connectors equal to
\* the single entry {type: 'Unknown', ports: 1}.
C22_AllFallbacks ==
    Normalized =>
        \A i \in 1..Len(last.result) :
            (DOMAIN last.rawStations[i] \cap (OptionalFields \cup {"unexpected"}) = {}) =>
                LET r == last.result[i]
                IN  /\ r.name = S_UnnamedStation
                    /\ r.address = S_AddressNotAvailable
                    /\ r.city = S_UnknownCity
                    /\ r.state = S_UnknownState
                    /\ r.zip = <<>>
                    /\ r.latitude = 0
                    /\ r.longitude = 0
                    /\ r.network = S_UnknownNetwork
                    /\ r.access = S_unknown
                    /\ r.hours = S_247
                    /\ r.phone = S_NA
                    /\ r.website = <<>>
                    /\ r.connectors = <<[type |-> S_Unknown, ports |-> 1]>>

\* a record without any optional field has been normalized, next to one that
\* has them
C22_Witness ==
    /\ Normalized
    /\ last.rawStations = <<RawAlpha, RawBare>>
    /\ last.result[2].name = S_UnnamedStation
    /\ last.result[1].name # S_UnnamedStation

\* C24: for every raw station record, the list returned by parseConnectors
\* contains no two entries with the same type label, whatever count fields
\* are present and however often a connector type (including CCS and
\* J1772COMBO together) occurs in ev_connector_types.
C24_NoRepeatedLabel ==
    Normalized =>
        \A i \in 1..Len(last.result) :
            LET connectors == last.result[i].connectors
            IN  \A j, k \in 1..Len(connectors) :
                    connectors[j].type = connectors[k].type => j = k

\* records naming CCS and J1772COMBO together, and every type twice, have
\* been normalized
C24_Witness ==
    /\ Normalized
    /\ last.rawStations = <<RawBeta, RawRepeatedTypes>>
    /\ Len(last.result[1].connectors) = 2
    /\ Len(last.result[2].connectors) = 4

-----------------------------------------------------------------------------
(* The proxy endpoint: part_000                                             *)

MaxProxyRequests == 2

\* Response.ok of the call to the third-party API: a status in 200..299
IsOk_Below400(status) == status \in 200..399

IsOk(status) == status \in 200..299

\* what the proxy sends back
ProxyReply(status, success, stations) ==
    [status |-> status, success |-> success, stations |-> stations]

NoReply == ProxyReply(0, FALSE, <<>>)

\* the answer of the third-party API to the proxy: fetch rejects, or there is
\* a response with a status and a body that parses as JSON or does not;
\* fuel_stations is the list of a parsed body
UpstreamAnswer(rejected, status, parses, fuel_stations) ==
    [rejected |-> rejected, status |-> status, parses |-> parses,
     fuel_stations |-> fuel_stations]

NoUpstreamAnswer == UpstreamAnswer(FALSE, 0, FALSE, <<>>)

\* one request to the proxy; hasApiKey tells whether process.env.NREL_API_KEY
\* is set, upstream holds the parameters of the requests to the third-party API
NoProxyRequest ==
    [pc |-> "idle", hasApiKey |-> TRUE, query |-> RequestParams(0, 0, 0),
     upstream |-> <<>>, answer |-> NoUpstreamAnswer, reply |-> NoReply]

\* lines 5-37: the handler up to await fetch(apiUrl), or to the reply of
\* line 10 when the environment holds no API key
proxyHandler(query, hasApiKey) ==
    IF ~hasApiKey
    THEN [NoProxyRequest EXCEPT !.pc = "replied", !.query = query,
                                !.hasApiKey = FALSE,
                                !.reply = ProxyReply(500, FALSE, <<>>)]
    ELSE [NoProxyRequest EXCEPT !.pc = "await_upstream", !.query = query,
                                !.upstream = <<ProxyForwards(query)>>]

\* lines 39-51: the handler from the answer of the third-party API on
proxyHandlerContinues(c, r) ==
    [c EXCEPT
       !.pc = "replied",
       !.answer = r,
       !.reply = IF r.rejected \/ ~r.parses
                 THEN ProxyReply(500, FALSE, <<>>)
                 ELSE IF IsOk(r.status)
                 THEN ProxyReply(200, TRUE, r.fuel_stations)
                 ELSE ProxyReply(r.status, FALSE, <<>>)]

UpstreamStatuses == {200, 201, 304, 401, 403, 404, 422, 429, 500, 502, 503}

UpstreamAnswers ==
    {UpstreamAnswer(TRUE, 0, FALSE, <<>>)}
        \cup {UpstreamAnswer(FALSE, status, FALSE, <<>>) : status \in UpstreamStatuses}
        \cup {UpstreamAnswer(FALSE, status, TRUE, IF status < 300 THEN l ELSE <<>>) :
                  status \in UpstreamStatuses, l \in ServerLists}

ProxyQueries == {RequestParams(q.latitude, q.longitude, q.radius) : q \in Queries}

\* the environment of the function holds an API key or does not
InitProxy ==
    /\ now = 0
    /\ localStorage = <<>>
    /\ storageState = "ok"
    /\ capturedAt = <<>>
    /\ \E hasApiKey \in BOOLEAN :
           proc = [p \in {"proxy"} |->
                      [NoProxyRequest EXCEPT !.hasApiKey = hasApiKey]]
    /\ hist = NoHist
    /\ appState = InitialAppState
    /\ ui = InitialUi
    /\ last = [op |-> "none", before |-> InitialAppState]

\* a request reaches the proxy
ProxyReceives ==
    /\ proc["proxy"].pc \in {"idle", "replied"}
    /\ hist.started < MaxProxyRequests
    /\ \E query \in ProxyQueries :
           proc' = [proc EXCEPT
                      !["proxy"] = proxyHandler(query, @.hasApiKey)]
    /\ hist' = [hist EXCEPT !.started = @ + 1]
    /\ UNCHANGED <<now, localStorage, storageState, appState, ui,
                   capturedAt, last>>

\* the third-party API answers the proxy, or the request to it fails
UpstreamResponds ==
    /\ proc["proxy"].pc = "await_upstream"
    /\ \E r \in UpstreamAnswers :
           proc' = [proc EXCEPT !["proxy"] = proxyHandlerContinues(@, r)]
    /\ UNCHANGED <<now, localStorage, storageState, appState, ui,
                   capturedAt, hist, last>>

NextProxy == ProxyReceives \/ UpstreamResponds

SpecProxy == InitProxy /\ [][NextProxy]_vars

-----------------------------------------------------------------------------
(* Properties of the proxy endpoint                                         *)

\* the third-party API answered 2xx with a body that parses
UpstreamSucceeded(c) ==
    /\ c.upstream # <<>>
    /\ ~c.answer.rejected
    /\ c.answer.status \in 200..299
    /\ c.answer.parses

\* C25: the proxy endpoint answers with an HTTP 2xx status and success: true
\* exactly when the upstream third-party API answered 2xx with a parseable
\* body; in every other case (missing server API key, upstream non-2xx,
\* network or parse error) it answers with a non-2xx status and success:
\* false, and with a missing server API key it makes no upstream request.
C25_ProxySuccessIffUpstreamOk ==
    LET c == proc["proxy"]
    IN  /\ c.pc = "replied" =>
              IF UpstreamSucceeded(c)
              THEN c.reply.status \in 200..299 /\ c.reply.success
              ELSE c.reply.status \notin 200..299 /\ ~c.reply.success
        /\ ~c.hasApiKey => c.upstream = <<>>

\* the proxy has passed a list on, after a request that it answered with the
\* status of the third-party API
C25_Witness ==
    LET c == proc["proxy"]
    IN  /\ hist.started = 2
        /\ c.pc = "replied"
        /\ c.answer.status = 201
        /\ c.reply = ProxyReply(200, TRUE, <<RawBeta, RawDelta>>)
        /\ c.upstream[1].radius = DEFAULT_SEARCH_RADIUS

-----------------------------------------------------------------------------
(* The distance functions on their own                                      *)

\* latitudes and longitudes in tenths of a degree
Coordinates == {0 - 35, 0, 10, 17, 80}

Points == {Location(lat, lon) : lat, lon \in Coordinates}

InitDistance ==
    /\ QuietEnvironment
    /\ appState = InitialAppState
    /\ \E a, b \in Points :
           last = [op |-> "none", a |-> a, b |-> b, there |-> 0, back |-> 0]

\* getDistance is called from a to b and from b to a
RunGetDistance ==
    /\ last.op = "none"
    /\ last' = [last EXCEPT
                  !.op = "getDistance",
                  !.there = getDistance(last.a.latitude, last.a.longitude,
                                        last.b.latitude, last.b.longitude),
                  !.back = getDistance(last.b.latitude, last.b.longitude,
                                       last.a.latitude, last.a.longitude)]
    /\ UNCHANGED <<now, localStorage, storageState, proc, appState, ui,
                   capturedAt, hist>>

\* haversineKm is called from a to b and from b to a
RunHaversineKm ==
    /\ last.op = "none"
    /\ last' = [last EXCEPT
                  !.op = "haversineKm",
                  !.there = haversineKm(last.a.latitude, last.a.longitude,
                                        last.b.latitude, last.b.longitude),
                  !.back = haversineKm(last.b.latitude, last.b.longitude,
                                       last.a.latitude, last.a.longitude)]
    /\ UNCHANGED <<now, localStorage, storageState, proc, appState, ui,
                   capturedAt, hist>>

NextDistance == RunGetDistance \/ RunHaversineKm

SpecDistance == InitDistance /\ [][NextDistance]_vars

\* C26: the distance function returns 0 for two identical points and is
\* symmetric: distance(a, b) equals distance(b, a) for all coordinate pairs a
\* and b, and the result is never negative.
C26_DistanceZeroSymmetric ==
    last.op # "none" =>
        /\ last.a = last.b => last.there = 0
        /\ last.there = last.back
        /\ last.there >= 0

\* the distance between two points of different latitudes and longitudes has
\* been computed in both directions, and is not 0
C26_Witness ==
    /\ last.op = "getDistance"
    /\ last.a = Location(10, 0 - 35)
    /\ last.b = Location(80, 17)
    /\ last.there > 0

====
